---- MODULE Spec2Model ----
(***************************************************************************)
(* Model of the persistence layer of WhatsAppFlow-v2:                      *)
(*   FileUtils.readJsonFile / writeJsonFile  (utils/fileUtils.js)          *)
(*   JsonDatabase                            (database/jsonDb.js)          *)
(*   MemoryManager                           (database/memoryManager.js)   *)
(* and of the credential pool of GeminiClient (gemini/geminiClient.js).    *)
(* Each asynchronous call is a process whose program counter stops at the  *)
(* awaits of the code (lock polling, readFile, access, mkdir, open, write, *)
(* rename); the code between two awaits runs as one step, as the event     *)
(* loop runs it.                                                           *)
(***************************************************************************)
EXTENDS Integers, Sequences, FiniteSets, TLC

----------------------------------------------------------------------------
(* Bounds of the model *)

\* concurrent calls (processes)
NumProcs == 2
\* calls made in a run of Spec
MaxCalls == 2
\* storage faults (failing readFile / writeJsonFile stage) in a run of Spec
MaxFaults == 1
\* calls made in a run of SpecDedup
MaxDedupCalls == 7
\* the clock runs from 0 to MaxTime in steps of TickStep milliseconds
MaxTime == 7500
TickStep == 2500
\* calls made in a run of SpecTrim, and the maxItems they pass
MaxTrimCalls == 4
TrimMax == 2
\* calls made in a run of SpecCap
MaxCapCalls == 8
\* calls made in a run of SpecMerge
MaxMergeCalls == 3
\* calls made in a run of SpecClock
MaxClockCalls == 3
\* calls made in a run of SpecRead
MaxReadCalls == 3
\* credentials of the pool (GEMINI_API_KEYS), key selections in a run of
\* SpecPool, and its clock: 0 to MaxPoolTime in steps of PoolTickStep
NumKeys == 2
MaxSelects == 5
MaxPoolTime == 60000
PoolTickStep == 30000
\* key selections in a run of SpecSweep, and its clock
MaxSweepSelects == 2
MaxSweepTime == 480000
SweepTickStep == 60000

(* JSON values written and read on their own in SpecIO: the longest array  *)
MaxJsonLen == 2

(* generateContent calls: the largest maxRetries a caller passes, the key  *)
(* selections in a run of SpecGen, its clock, and the longest response     *)
MaxRetriesBound == 3
MaxGenSelects == 4
MaxGenTime == 6000
GenTickStep == 2000
MaxTextLen == 2

(* concurrent generateContent calls: the key selections in a run of        *)
(* SpecRetry and its clock                                                  *)
MaxRetrySelects == 3
MaxRetryTime == 2000

(* Composite profile updates (storeRelationship, storeConversationContext) *)
(* made in SpecCompose                                                     *)
MaxComposeCalls == 2

(* storeEmotionalContext and addMessage calls made one after the other in  *)
(* SpecEmo, and its clock: 0 to MaxEmoTime in steps of EmoTickStep          *)
MaxEmoCalls == 12
MaxEmoTime == 1
EmoTickStep == 1

(* concurrent storeContact calls of one user made in SpecContact *)
MaxContactCalls == 3

(* leave timers set in a run of SpecPresence *)
MaxLeaveTimers == 3

(* processAIMemoryDecisions batches in SpecBatch: the repository calls     *)
(* their operations make in a run, and the longest list of operations      *)
MaxBatchCalls == 2
MaxOperations == 2

(* Program constants *)

\* config.bot.maxChatHistory: MAX_CHAT_HISTORY from the environment (30 when
\* unset); the model runs with MAX_CHAT_HISTORY=7, above RecentWindow
maxChatHistory == 7
\* chatHistory[senderId].slice(-5)
RecentWindow == 5
\* (Date.now() - timestamp) < 5000
DedupMillis == 5000
\* emotionalEntries.length > 10
MaxEmotional == 10
\* setTimeout(..., 60000) of markKeyAsFailed
CooldownMillis == 60000
\* setInterval(..., 60000) of startKeyRotation
SweepInterval == 60000
\* now - lastUsed > 300000
SweepAge == 300000

Procs == 1..NumProcs
Keys == {"k1", "k2"}
Repos == {"db", "mem"}
Undef == "undefined"

----------------------------------------------------------------------------
(* JSON values: the profile document holds objects, arrays, strings, null *)

Null == [t |-> "null"]
Str(s) == [t |-> "str", v |-> s]
Arr(s) == [t |-> "arr", v |-> s]
Obj(f) == [t |-> "obj", v |-> f]

NoFields == [x \in {} |-> Null]

IsArr(x) == x.t = "arr"

(* typeof x === 'object' && !Array.isArray(x): true of objects and of null *)
IsMergeable(x) == x.t \in {"obj", "null"}

(* the own enumerable properties copied by {...x}: the fields of an object, *)
(* the indices of an array, nothing of null (the model spreads no string)   *)
Spread(x) ==
  CASE x.t = "obj" -> x.v
    [] x.t = "arr" -> [i \in {ToString(j - 1) : j \in 1..Len(x.v)} |->
                         x.v[CHOOSE j \in 1..Len(x.v) : ToString(j - 1) = i]]
    [] OTHER -> NoFields

(* { ...a, ...b } *)
SpreadMerge(a, b) ==
  [x \in DOMAIN Spread(a) \cup DOMAIN Spread(b) |->
     IF x \in DOMAIN Spread(b) THEN Spread(b)[x] ELSE Spread(a)[x]]

----------------------------------------------------------------------------
(* Documents: a map from the entity keys present to their value *)

EmptyDoc == [k \in {} |-> <<>>]

HasKey(d, k) == k \in DOMAIN d

SetKey(d, k, v) == [x \in DOMAIN d \cup {k} |-> IF x = k THEN v ELSE d[x]]

DelKey(d, k) == [x \in DOMAIN d \ {k} |-> d[x]]

(* array.slice(-n) for n > 0 *)
LastN(s, n) == IF Len(s) <= n THEN s ELSE SubSeq(s, Len(s) - n + 1, Len(s))

(* a truncation that keeps the tail of the array: slice(-n) *)
FirstN_FromEnd(s, n) == IF Len(s) <= n THEN s ELSE SubSeq(s, Len(s) - n + 1, Len(s))

(* array.slice(0, n) *)
FirstN(s, n) == IF Len(s) <= n THEN s ELSE SubSeq(s, 1, n)

----------------------------------------------------------------------------
(* JSON texts: JSON.stringify and JSON.parse on token sequences *)

(* values JSON has no text for: undefined, and the numbers NaN / Infinity *)
Undefined == [t |-> "undefined"]
NaN == [t |-> "nan"]

Punct(c) == [k |-> "punct", v |-> c]
Literal(w) == [k |-> "lit", v |-> w]
StrTok(s) == [k |-> "str", v |-> s]

(* a serializer that also leaves out the properties whose value is null *)
SerializedFields_NoNull(f) == {x \in DOMAIN f : f[x].t \notin {"undefined", "null"}}

(* the properties JSON.stringify serializes: those whose value is not      *)
(* undefined                                                               *)
SerializedFields(f) == {x \in DOMAIN f : f[x].t # "undefined"}

(* JSON.stringify(value): NaN becomes null, an undefined array element     *)
(* becomes null, a property of undefined value is left out (the white      *)
(* space of the indentation is not kept: JSON.parse skips it)              *)
RECURSIVE JsonText(_), ElemsText(_, _), FieldsText(_, _, _)
JsonText(x) ==
  CASE x.t \in {"null", "nan", "undefined"} -> <<Literal("null")>>
    [] x.t = "str" -> <<StrTok(x.v)>>
    [] x.t = "arr" -> <<Punct("[")>> \o ElemsText(x.v, 1) \o <<Punct("]")>>
    [] x.t = "obj" -> <<Punct("{")>> \o FieldsText(x.v, SerializedFields(x.v), TRUE)
                         \o <<Punct("}")>>

ElemsText(s, i) ==
  IF i > Len(s) THEN <<>>
  ELSE (IF i > 1 THEN <<Punct(",")>> ELSE <<>>) \o JsonText(s[i]) \o ElemsText(s, i + 1)

FieldsText(f, names, first) ==
  IF names = {} THEN <<>>
  ELSE LET x == CHOOSE y \in names : TRUE
       IN (IF first THEN <<>> ELSE <<Punct(",")>>)
          \o <<StrTok(x), Punct(":")>> \o JsonText(f[x])
          \o FieldsText(f, names \ {x}, FALSE)

(* the outcome of a parse: the value and the token after it, or a          *)
(* SyntaxError                                                             *)
SyntaxError == [ok |-> FALSE, val |-> Null, next |-> 0]

Parsed(v, n) == [ok |-> TRUE, val |-> v, next |-> n]

IsTok(t, i, tok) == i <= Len(t) /\ t[i] = tok

(* JSON.parse from token i on *)
RECURSIVE ParseValue(_, _), ParseElems(_, _, _), ParseFields(_, _, _)
ParseValue(t, i) ==
  IF i > Len(t) THEN SyntaxError
  ELSE CASE t[i] = Literal("null") -> Parsed(Null, i + 1)
         [] t[i].k = "str" -> Parsed(Str(t[i].v), i + 1)
         [] t[i] = Punct("[") ->
              IF IsTok(t, i + 1, Punct("]")) THEN Parsed(Arr(<<>>), i + 2)
              ELSE ParseElems(t, i + 1, <<>>)
         [] t[i] = Punct("{") ->
              IF IsTok(t, i + 1, Punct("}")) THEN Parsed(Obj(NoFields), i + 2)
              ELSE ParseFields(t, i + 1, NoFields)
         [] OTHER -> SyntaxError

ParseElems(t, i, acc) ==
  LET r == ParseValue(t, i)
  IN IF ~r.ok THEN SyntaxError
     ELSE IF IsTok(t, r.next, Punct(",")) THEN ParseElems(t, r.next + 1, Append(acc, r.val))
     ELSE IF IsTok(t, r.next, Punct("]")) THEN Parsed(Arr(Append(acc, r.val)), r.next + 1)
     ELSE SyntaxError

ParseFields(t, i, acc) ==
  IF ~(i + 1 <= Len(t) /\ t[i].k = "str" /\ t[i + 1] = Punct(":")) THEN SyntaxError
  ELSE LET r == ParseValue(t, i + 2)
           f == [x \in DOMAIN acc \cup {t[i].v} |->
                   IF x = t[i].v THEN r.val ELSE acc[x]]
       IN IF ~r.ok THEN SyntaxError
          ELSE IF IsTok(t, r.next, Punct(",")) THEN ParseFields(t, r.next + 1, f)
          ELSE IF IsTok(t, r.next, Punct("}")) THEN Parsed(Obj(f), r.next + 1)
          ELSE SyntaxError

(* JSON.parse(text): the whole text is one value *)
JsonParse(t) ==
  LET r == ParseValue(t, 1)
  IN IF r.ok /\ r.next = Len(t) + 1 THEN r ELSE SyntaxError

----------------------------------------------------------------------------
(* File contents.  NoFile: the name does not exist.  Partial: a file that  *)
(* was opened for writing (truncated) and whose text is not yet complete;  *)
(* JSON.parse throws on it.  Json(d): the complete text of document d.     *)

NoFile == [kind |-> "none"]
Partial == [kind |-> "partial"]

(* a file holding the text t *)
TextFile(t) == [kind |-> "text", text |-> t]

(* JSON.stringify(data, null, 2) of a repository document, named by the    *)
(* document                                                                 *)
Stringify(d) == [kind |-> "json", doc |-> d]

(* JSON.parse does not throw on the content *)
IsJson(c) == c.kind = "json" \/ (c.kind = "text" /\ JsonParse(c.text).ok)

(* JSON.parse of a text that parses *)
Parse(c) == IF c.kind = "text" THEN JsonParse(c.text).val ELSE c.doc

----------------------------------------------------------------------------
(* History document (JsonDatabase): key -> sequence of entries.  An entry  *)
(* is a message, a contact or an emotional context; a field the entry does *)
(* not carry is Undef.  id and timestamp are both the clock reading of the *)
(* step that built the entry (Date.now().toString(), toISOString()).  The  *)
(* derived localTime / timeOfDay fields are functions of the same clock    *)
(* reading and are not carried.                                            *)

MessageEntry(t, role, content, force) ==
  [id |-> t, type |-> Undef, role |-> role, content |-> content,
   timestamp |-> t, forceDuplicate |-> force,
   contactName |-> Undef, contactNumber |-> Undef, context |-> Undef]

ContactEntry(t, name, number) ==
  [id |-> t, type |-> "contact", role |-> Undef, content |-> Undef,
   timestamp |-> t, forceDuplicate |-> FALSE,
   contactName |-> name, contactNumber |-> number, context |-> Undef]

EmotionalEntry(t, context) ==
  [id |-> t, type |-> "emotional_context", role |-> Undef, content |-> Undef,
   timestamp |-> t, forceDuplicate |-> FALSE,
   contactName |-> Undef, contactNumber |-> Undef, context |-> context]

(* String.prototype.toLowerCase on the names the model uses *)
ToLowerCase(s) ==
  CASE s = "Ann" -> "ann"
    [] s = "Bob" -> "bob"
    [] OTHER -> s

(* chatHistory[senderId] after `if (!chatHistory[senderId]) chatHistory[senderId] = []` *)
EntriesOf(d, k) == IF HasKey(d, k) THEN d[k] ELSE <<>>

(* a duplicate check that looks at the last entry only *)
isDuplicate_LastOnly(list, role, content, t) ==
  LET recentMessages == LastN(list, 1)
  IN \E i \in 1..Len(recentMessages) :
        /\ recentMessages[i].content = content
        /\ recentMessages[i].role = role
        /\ (t - recentMessages[i].timestamp) < DedupMillis

(* a duplicate check that ignores the age of the entry *)
isDuplicate_NoAge(list, role, content, t) ==
  LET recentMessages == LastN(list, RecentWindow)
  IN \E i \in 1..Len(recentMessages) :
        /\ recentMessages[i].content = content
        /\ recentMessages[i].role = role

(* recentMessages.some(...) over chatHistory[senderId].slice(-5) *)
isDuplicate(list, role, content, t) ==
  LET recentMessages == LastN(list, RecentWindow)
  IN \E i \in 1..Len(recentMessages) :
        /\ recentMessages[i].content = content
        /\ recentMessages[i].role = role
        /\ (t - recentMessages[i].timestamp) < DedupMillis

(* push, then slice(-maxHistory) when the list is longer than maxHistory *)
PushTrim(list, e) ==
  LET pushed == Append(list, e)
  IN IF Len(pushed) > maxChatHistory THEN LastN(pushed, maxChatHistory) ELSE pushed

(* array.filter(pred) *)
RECURSIVE FilterSeq(_, _)
FilterSeq(s, keep) ==
  IF s = <<>> THEN <<>>
  ELSE IF Head(s) \in keep THEN <<Head(s)>> \o FilterSeq(Tail(s), keep)
       ELSE FilterSeq(Tail(s), keep)

SeqRange(s) == {s[i] : i \in 1..Len(s)}

(* "Keep only last 10 emotional contexts": the entries removed are those   *)
(* whose id equals the id of one of the oldest surplus emotional entries   *)
PruneEmotional(list) ==
  LET emotionalEntries == FilterSeq(list, {e \in SeqRange(list) : e.type = "emotional_context"})
      toRemove == FirstN(emotionalEntries, Len(emotionalEntries) - MaxEmotional)
      removeIds == {toRemove[i].id : i \in 1..Len(toRemove)}
  IN IF Len(emotionalEntries) > MaxEmotional
     THEN FilterSeq(list, {e \in SeqRange(list) : e.id \notin removeIds})
     ELSE list

(* a findIndex that compares the names as they are written *)
existingContactIndex_SameCase(list, name) ==
  LET hits == {i \in 1..Len(list) :
                 /\ list[i].type = "contact"
                 /\ list[i].contactName = name}
  IN IF hits = {} THEN 0 ELSE CHOOSE i \in hits : \A j \in hits : i <= j

(* findIndex of a contact with the same lower-cased name; 0 when none *)
existingContactIndex(list, name) ==
  LET hits == {i \in 1..Len(list) :
                 /\ list[i].type = "contact"
                 /\ ToLowerCase(list[i].contactName) = ToLowerCase(name)}
  IN IF hits = {} THEN 0 ELSE CHOOSE i \in hits : \A j \in hits : i <= j

(* The synchronous body of each JsonDatabase operation, from the document  *)
(* just read to the document handed to writeChatHistory.                   *)
(* write: whether the body goes on to write; ret: what it returns; val (of  *)
(* the getters): the value returned.                                       *)

(* an addMessage that tests `isDuplicate` alone *)
addMessageBody_NoForce(d, k, a, t) ==
  LET list == EntriesOf(d, k)
      d1 == SetKey(d, k, list)
  IN IF isDuplicate(list, a.role, a.content, t)
     THEN [write |-> FALSE, doc |-> d1, ret |-> "null"]
     ELSE [write |-> TRUE,
           doc |-> SetKey(d, k, PushTrim(list, MessageEntry(t, a.role, a.content, a.force))),
           ret |-> "value"]

addMessageBody(d, k, a, t) ==
  LET list == EntriesOf(d, k)
      d1 == SetKey(d, k, list)
  IN IF isDuplicate(list, a.role, a.content, t) /\ ~a.force
     THEN [write |-> FALSE, doc |-> d1, ret |-> "null"]
     ELSE [write |-> TRUE,
           doc |-> SetKey(d, k, PushTrim(list, MessageEntry(t, a.role, a.content, a.force))),
           ret |-> "value"]

(* a clear that leaves the key with an empty list *)
clearMessagesForSenderBody_EmptyList(d, k) ==
  [write |-> TRUE, doc |-> SetKey(d, k, <<>>), ret |-> "void"]

clearMessagesForSenderBody(d, k) ==
  [write |-> TRUE, doc |-> DelKey(d, k), ret |-> "void"]

storeContactBody(d, k, a, t) ==
  LET list == EntriesOf(d, k)
      idx == existingContactIndex(list, a.name)
      contactInfo == ContactEntry(t, a.name, a.number)
  IN [write |-> TRUE,
      doc |-> SetKey(d, k, IF idx > 0 THEN [list EXCEPT ![idx] = contactInfo]
                           ELSE Append(list, contactInfo)),
      ret |-> "value"]

storeEmotionalContextBody(d, k, a, t) ==
  LET list == EntriesOf(d, k)
  IN [write |-> TRUE,
      doc |-> SetKey(d, k, PruneEmotional(Append(list, EmotionalEntry(t, a.context)))),
      ret |-> "void"]

(* `return chatHistory[senderId] || []` *)
getMessagesForSenderBody(d, k) ==
  [write |-> FALSE, doc |-> d, ret |-> "value", val |-> EntriesOf(d, k)]

----------------------------------------------------------------------------
(* Profile document (MemoryManager): key -> Profile.  A Profile maps its   *)
(* category names to JSON values and carries createdAt / lastUpdated.      *)
(* The model carries the relationships, academicInfo, lifeEvents and       *)
(* conversationContext categories of createEmptyMemoryProfile; the others  *)
(* have the same shape (an object of scalars, arrays and objects) and are  *)
(* handled by the same code.                                               *)

createEmptyMemoryProfile(t) ==
  [relationships |-> Obj([friends |-> Obj(NoFields), crushes |-> Obj(NoFields),
                          family |-> Obj(NoFields), teachers |-> Obj(NoFields)]),
   conversationContext |-> Obj([lastTopics |-> Arr(<<>>), ongoingIssues |-> Arr(<<>>),
                                promisesToKeep |-> Arr(<<>>),
                                thingsToRemember |-> Arr(<<>>),
                                lastInteraction |-> Null]),
   academicInfo |-> Obj([stream |-> Null, currentGrade |-> Null,
                         strongSubjects |-> Arr(<<>>), weakSubjects |-> Arr(<<>>),
                         examSchedule |-> Obj(NoFields), studyHabits |-> Arr(<<>>),
                         academicGoals |-> Arr(<<>>)]),
   lifeEvents |-> Obj([importantDates |-> Obj(NoFields), achievements |-> Arr(<<>>),
                       challenges |-> Arr(<<>>), goals |-> Arr(<<>>),
                       recentEvents |-> Arr(<<>>)]),
   createdAt |-> t,
   lastUpdated |-> t]

(* memories[userId] after `if (!memories[userId]) memories[userId] = createEmptyMemoryProfile()` *)
ProfileOf(d, k, t) == IF HasKey(d, k) THEN d[k] ELSE createEmptyMemoryProfile(t)

(* obj[name] = v on a record, adding the property when it is missing *)
SetProp(r, name, v) == [x \in DOMAIN r \cup {name} |-> IF x = name THEN v ELSE r[x]]

(* updateMemory without `memories[userId].lastUpdated = ...` *)
updateMemoryBody_NoStamp(d, k, a, t) ==
  LET prof == ProfileOf(d, k, t)
      known == a.category \in DOMAIN prof
      merged == IF a.merge /\ known /\ IsMergeable(prof[a.category])
                THEN Obj(SpreadMerge(prof[a.category], a.data))
                ELSE a.data
      prof1 == SetProp(prof, a.category, merged)
  IN [write |-> TRUE,
      doc |-> SetKey(d, k, prof1),
      ret |-> "value"]

updateMemoryBody(d, k, a, t) ==
  LET prof == ProfileOf(d, k, t)
      known == a.category \in DOMAIN prof
      merged == IF a.merge /\ known /\ IsMergeable(prof[a.category])
                THEN Obj(SpreadMerge(prof[a.category], a.data))
                ELSE a.data
      prof1 == SetProp(prof, a.category, merged)
  IN [write |-> TRUE,
      doc |-> SetKey(d, k, [prof1 EXCEPT !.lastUpdated = t]),
      ret |-> "value"]

(* typeof item === 'object' ? {...item, timestamp} : {content: item, timestamp} *)
itemWithTimestamp(item, t) ==
  IF item.t \in {"obj", "arr", "null"}
  THEN Obj(SetProp(Spread(item), "timestamp", t))
  ELSE Obj([content |-> item, timestamp |-> t])

addToMemoryArrayBody(d, k, a, t) ==
  LET prof == ProfileOf(d, k, t)
      cat == IF a.category \in DOMAIN prof /\ prof[a.category].t # "null"
             THEN prof[a.category] ELSE Obj(NoFields)
      old == IF a.subcategory \in DOMAIN cat.v /\ IsArr(cat.v[a.subcategory])
             THEN cat.v[a.subcategory].v ELSE <<>>
      unshifted == <<itemWithTimestamp(a.item, t)>> \o old
      kept == IF Len(unshifted) > a.maxItems THEN FirstN(unshifted, a.maxItems) ELSE unshifted
      cat1 == Obj(SetProp(cat.v, a.subcategory, Arr(kept)))
      prof1 == SetProp(prof, a.category, cat1)
  IN [write |-> TRUE,
      doc |-> SetKey(d, k, [prof1 EXCEPT !.lastUpdated = t]),
      ret |-> "value"]

clearUserMemoryBody(d, k) ==
  [write |-> TRUE, doc |-> DelKey(d, k), ret |-> "void"]

(* `return memories[userId] || this.createEmptyMemoryProfile()` *)
getUserMemoryBody(d, k, t) ==
  [write |-> FALSE, doc |-> d, ret |-> "value", val |-> ProfileOf(d, k, t)]

(* x[name] when it is an array, [] otherwise: `if (!x[name]) x[name] = []` *)
ArrayAt(f, name) == IF name \in DOMAIN f /\ IsArr(f[name]) THEN f[name].v ELSE <<>>

(* storeRelationship between its two awaits: memories.relationships of the *)
(* profile getUserMemory returned, with the entry of `name` set            *)
storeRelationshipData(memories, a, t) ==
  LET rel == memories.relationships.v
      byType == IF a.type \in DOMAIN rel /\ rel[a.type].t = "obj"
                THEN rel[a.type].v ELSE NoFields
      entry == Obj(SetProp(SpreadMerge(Obj([name |-> Str(a.name)]), a.details),
                           "lastMentioned", t))
  IN Obj(SetProp(rel, a.type, Obj(SetProp(byType, ToLowerCase(a.name), entry))))

(* storeConversationContext between its two awaits: the conversationContext *)
(* of the profile getUserMemory returned, with the topic, issue and thing   *)
(* to remember of `context` put in front of their lists                     *)
storeConversationContextData(memories, a, t) ==
  LET cc == memories.conversationContext.v
      c == a.context
      cc1 == IF c.topic # Undef
             THEN SetProp(cc, "lastTopics",
                    Arr(FirstN(<<Obj([topic |-> Str(c.topic), timestamp |-> t])>>
                               \o ArrayAt(cc, "lastTopics"), 10)))
             ELSE cc
      cc2 == IF c.issue # Undef
             THEN SetProp(cc1, "ongoingIssues",
                    Arr(<<Obj([issue |-> Str(c.issue), status |-> Str("ongoing"),
                               timestamp |-> t])>> \o ArrayAt(cc1, "ongoingIssues")))
             ELSE cc1
      cc3 == IF c.remember # Undef
             THEN SetProp(cc2, "thingsToRemember",
                    Arr(FirstN(<<Obj([content |-> Str(c.remember),
                                      importance |-> Str("medium"), timestamp |-> t])>>
                               \o ArrayAt(cc2, "thingsToRemember"), 20)))
             ELSE cc2
  IN Obj(SetProp(cc3, "lastInteraction", Str(t)))

----------------------------------------------------------------------------
(* Calls: the operation, its key and its arguments *)

DbOps == {"addMessage", "clearMessagesForSender", "storeContact",
          "storeEmotionalContext", "getMessagesForSender"}
MemOps == {"updateMemory", "addToMemoryArray", "clearUserMemory", "getUserMemory"}

(* the repository (document file and lock table) an operation works on *)
RepoOf(op) == IF op \in DbOps THEN "db" ELSE "mem"

(* operations that take the per-key lock: the getters do not *)
TakesLock(op) == op \notin {"getMessagesForSender", "getUserMemory"}

(* operations whose catch block ends in `throw error`;                     *)
(* JsonDatabase.storeEmotionalContext only logs, the getters return a      *)
(* default                                                                 *)
Rethrows(op) == op \notin {"storeEmotionalContext", "getMessagesForSender", "getUserMemory"}

NoCall == [op |-> "none", key |-> "k1", a |-> [none |-> TRUE]]

AddMessage(k, role, content, force) ==
  [op |-> "addMessage", key |-> k, a |-> [role |-> role, content |-> content, force |-> force]]
ClearMessagesForSender(k) ==
  [op |-> "clearMessagesForSender", key |-> k, a |-> [none |-> TRUE]]
StoreContact(k, name, number) ==
  [op |-> "storeContact", key |-> k, a |-> [name |-> name, number |-> number]]
StoreEmotionalContext(k, context) ==
  [op |-> "storeEmotionalContext", key |-> k, a |-> [context |-> context]]
GetMessagesForSender(k) ==
  [op |-> "getMessagesForSender", key |-> k, a |-> [none |-> TRUE]]
UpdateMemory(k, category, data, merge) ==
  [op |-> "updateMemory", key |-> k, a |-> [category |-> category, data |-> data, merge |-> merge]]
AddToMemoryArray(k, category, subcategory, item, maxItems) ==
  [op |-> "addToMemoryArray", key |-> k,
   a |-> [category |-> category, subcategory |-> subcategory, item |-> item, maxItems |-> maxItems]]
ClearUserMemory(k) ==
  [op |-> "clearUserMemory", key |-> k, a |-> [none |-> TRUE]]
GetUserMemory(k) ==
  [op |-> "getUserMemory", key |-> k, a |-> [none |-> TRUE]]

(* the synchronous body of call c run on document d at clock reading t *)
Body(c, d, t) ==
  CASE c.op = "addMessage" -> addMessageBody(d, c.key, c.a, t)
    [] c.op = "clearMessagesForSender" -> clearMessagesForSenderBody(d, c.key)
    [] c.op = "storeContact" -> storeContactBody(d, c.key, c.a, t)
    [] c.op = "storeEmotionalContext" -> storeEmotionalContextBody(d, c.key, c.a, t)
    [] c.op = "getMessagesForSender" -> getMessagesForSenderBody(d, c.key)
    [] c.op = "updateMemory" -> updateMemoryBody(d, c.key, c.a, t)
    [] c.op = "addToMemoryArray" -> addToMemoryArrayBody(d, c.key, c.a, t)
    [] c.op = "clearUserMemory" -> clearUserMemoryBody(d, c.key)
    [] c.op = "getUserMemory" -> getUserMemoryBody(d, c.key, t)

----------------------------------------------------------------------------
(* State *)

VARIABLES
  path,       \* path[r]: content of the document file of repository r
  tmp,        \* tmp[r]: content of the file `path + ".tmp"` of repository r
  dirExists,  \* whether the parent directory data/ exists
  lockMap,    \* lockMap[r]: the keys of this.lockMap of repository r
  now,        \* the clock (Date.now()), in milliseconds
  calls,      \* number of calls issued so far
  faults,     \* number of storage faults so far
  pc,         \* pc[p]: the await at which call p is suspended
  call,       \* call[p]: the operation, key and arguments of call p
  local,      \* local[p]: the chatHistory / memories object call p holds
  fd,         \* fd[p]: where the file call p has open for writing now lives
  obs,        \* obs[p]: what call p has observed and done so far
  failedKeys,     \* this.failedKeys: the quarantined key indices
  keyUsageCount,  \* this.keyUsageCount
  keyLastUsed,    \* this.keyLastUsed
  timers,         \* the pending cooldown timers of markKeyAsFailed
  sweepDue,       \* when the interval timer of startKeyRotation fires next
  selects,        \* number of key selections so far
  gpc,            \* gpc[p]: where generateContent call p is
  gkey,           \* gkey[p]: keyIndex of the current attempt of call p
  markedAt,       \* markedAt[i]: time and cause of the last markKeyAsFailed(i),
                  \* and whether failedKeys.clear() has run since
  gen,            \* gen[p]: the retry loop of generateContent call p
  io,             \* the last writeJsonFile and readJsonFile made on their own
  service         \* the ChatPresenceManager and the AIMemoryManager:
                  \*   leaveTimers: this.leaveTimers, the timer recorded for each
                  \*     user, 0 when none
                  \*   leaves: the leave timers set and not cleared: pending, or
                  \*     fired with the callback awaiting leaveChat; and whether
                  \*     the timer has outlived a cancelLeaveTimer of its user
                  \*   handling[u]: the handleMessagePresence calls of user u
                  \*     that await their decisions
                  \*   activeChats: this.activeChats, "none", "active" or
                  \*     "inactive" per user
                  \*   timerSeq: number of leave timers set so far
                  \*   processingQueue: the keys of this.processingQueue
                  \*   batch[p]: the processAIMemoryDecisions call of process p

storeVars == <<path, tmp, dirExists, lockMap, calls, faults, pc, call, local, fd, obs>>

poolVars == <<failedKeys, keyUsageCount, keyLastUsed, timers, sweepDue, selects,
              gpc, gkey, markedAt, gen>>

vars == <<path, tmp, dirExists, lockMap, now, calls, faults, pc, call, local, fd, obs,
          failedKeys, keyUsageCount, keyLastUsed, timers, sweepDue, selects,
          gpc, gkey, markedAt, gen, io, service>>

ioVars == <<io>>

serviceVars == <<service>>

(* the key indices: every configured key gets a client in initializeClients *)
clients == 0..(NumKeys - 1)

NeverMarked == [at |-> -1, quota |-> FALSE, cleared |-> FALSE]

(* the locals of a generateContent call nobody has made: maxRetries,       *)
(* attempts, the message of lastError, when the backoff sleep ends; and    *)
(* how many requests the call has sent, whether every error so far was a   *)
(* quota error, the text the call returned and the message of lastError    *)
(* in the error it threw; the turns the caller passed in as they were at   *)
(* the call (turns) and as they are now (history), and the message text of *)
(* every request sent (sent)                                               *)
NoGen == [state |-> "idle", maxRetries |-> 0, attempts |-> 0, lastError |-> "none",
          wakeAt |-> 0, sends |-> 0, onlyQuota |-> TRUE, text |-> <<>>,
          error |-> "none", turns |-> <<>>, history |-> <<>>, sent |-> <<>>]

(* the pool after the constructor: initializeClients, startKeyRotation *)
InitPool ==
  /\ failedKeys = {}
  /\ keyUsageCount = [i \in clients |-> 0]
  /\ keyLastUsed = [i \in clients |-> 0]
  /\ timers = {}
  /\ sweepDue = SweepInterval
  /\ selects = 0
  /\ gpc = [p \in Procs |-> "idle"]
  /\ gkey = [p \in Procs |-> 0]
  /\ markedAt = [i \in clients |-> NeverMarked]
  /\ gen = [p \in Procs |-> NoGen]

(* the value of a call that returned none, or whose value is not carried *)
NoValue == <<>>

NoObs == [base |-> EmptyDoc, at |-> 0, readFailed |-> FALSE, writeFailed |-> FALSE,
          renamed |-> FALSE, outcome |-> "none", ret |-> "none", val |-> NoValue]

(* no processAIMemoryDecisions call made: the user, where the call is, the *)
(* operations it has not begun yet, and whether it found the marker set     *)
NoBatch == [user |-> "none", state |-> "idle", left |-> <<>>, skipped |-> FALSE]

(* ChatPresenceManager and AIMemoryManager after their constructors *)
InitService ==
  service = [leaveTimers |-> [u \in Keys |-> 0],
             leaves |-> {},
             handling |-> [u \in Keys |-> 0],
             activeChats |-> [u \in Keys |-> "none"],
             timerSeq |-> 0,
             processingQueue |-> {},
             batch |-> [p \in Procs |-> NoBatch]]

(* no writeJsonFile and no readJsonFile made yet *)
NoIo == [op |-> "none", written |-> FALSE, data |-> Null, ioError |-> FALSE,
         default |-> Null, res |-> [out |-> "none"]]

Init ==
  /\ path = [r \in Repos |-> NoFile]
  /\ tmp = [r \in Repos |-> NoFile]
  /\ dirExists = FALSE
  /\ lockMap = [r \in Repos |-> {}]
  /\ now = 0
  /\ calls = 0
  /\ faults = 0
  /\ pc = [p \in Procs |-> "idle"]
  /\ call = [p \in Procs |-> NoCall]
  /\ local = [p \in Procs |-> EmptyDoc]
  /\ fd = [p \in Procs |-> "none"]
  /\ obs = [p \in Procs |-> NoObs]
  /\ InitPool
  /\ io = NoIo
  /\ InitService

repo(p) == RepoOf(call[p].op)

(* the stages of writeJsonFile *)
WriteStages == {"access", "mkdir", "open", "write", "rename"}

(* call p is between acquireLock's lockMap.set and releaseLock *)
InCriticalSection(p) ==
  /\ TakesLock(call[p].op)
  /\ pc[p] \in {"read"} \cup WriteStages

----------------------------------------------------------------------------
(* acquireLock / releaseLock *)

(* acquireLock without the `while (this.lockMap.has(id))` loop *)
LockFree_NoCheck(r, k) == TRUE

(* one lock for the whole table: `while (this.lockMap.size > 0)` *)
LockFree_AnyKey(r, k) == lockMap[r] = {}

(* `while (this.lockMap.has(id))`: the condition under which the loop exits *)
LockFree(r, k) == k \notin lockMap[r]

(* acquireLock that marks the key in the table of the other repository *)
LockSet_WrongTable(r, k) == [lockMap EXCEPT ![CHOOSE x \in Repos : x # r] = @ \cup {k}]

(* this.lockMap.set(id, true) *)
LockSet(r, k) == [lockMap EXCEPT ![r] = @ \cup {k}]

(* this.lockMap.delete(id) *)
releaseLock(r, k) == [lockMap EXCEPT ![r] = @ \ {k}]

(* a call whose early `return null` skips the finally block *)
Leave_NoFinallyOnReturnNull(p, threw, o) ==
  /\ lockMap' = IF TakesLock(call[p].op) /\ ~(~threw /\ o.ret = "null")
                THEN [lockMap EXCEPT ![repo(p)] = @ \ {call[p].key}] ELSE lockMap
  /\ pc' = [pc EXCEPT ![p] = "done"]
  /\ local' = [local EXCEPT ![p] = EmptyDoc]
  /\ obs' = [obs EXCEPT ![p] =
               [o EXCEPT !.outcome = IF threw /\ Rethrows(call[p].op) THEN "threw" ELSE "returned",
                         !.ret = IF threw THEN "none" ELSE o.ret]]

(* The call leaves: the finally block releases the lock it took, and the   *)
(* caller sees a return or an exception.  o is what the call has observed. *)
Leave(p, threw, o) ==
  /\ lockMap' = IF TakesLock(call[p].op) THEN releaseLock(repo(p), call[p].key) ELSE lockMap
  /\ pc' = [pc EXCEPT ![p] = "done"]
  /\ local' = [local EXCEPT ![p] = EmptyDoc]
  /\ obs' = [obs EXCEPT ![p] =
               [o EXCEPT !.outcome = IF threw /\ Rethrows(call[p].op) THEN "threw" ELSE "returned",
                         !.ret = IF threw THEN "none" ELSE o.ret]]

(* A call is made.  acquireLock runs up to its first await in the same     *)
(* step: when the key is free the lock is taken at once, otherwise the     *)
(* call sleeps 10 ms and looks again.                                      *)
Invoke(p, c, max) ==
  /\ pc[p] \in {"idle", "done"}
  /\ calls < max
  /\ calls' = calls + 1
  /\ call' = [call EXCEPT ![p] = c]
  /\ obs' = [obs EXCEPT ![p] = NoObs]
  /\ local' = [local EXCEPT ![p] = EmptyDoc]
  /\ IF ~TakesLock(c.op) \/ LockFree(RepoOf(c.op), c.key)
     THEN /\ pc' = [pc EXCEPT ![p] = "read"]
          /\ lockMap' = IF TakesLock(c.op) THEN LockSet(RepoOf(c.op), c.key) ELSE lockMap
     ELSE /\ pc' = [pc EXCEPT ![p] = "wait"]
          /\ UNCHANGED lockMap
  /\ UNCHANGED <<path, tmp, dirExists, now, faults, fd>>
  /\ UNCHANGED poolVars
  /\ UNCHANGED ioVars

(* A call made by a caller other than the batch of processAIMemoryDecisions *)
Call(p, c, max) ==
  /\ Invoke(p, c, max)
  /\ UNCHANGED serviceVars

(* The 10 ms timer of a waiting call fires and finds the key free *)
Poll(p) ==
  /\ pc[p] = "wait"
  /\ LockFree(repo(p), call[p].key)
  /\ lockMap' = LockSet(repo(p), call[p].key)
  /\ pc' = [pc EXCEPT ![p] = "read"]
  /\ UNCHANGED <<path, tmp, dirExists, now, calls, faults, call, local, fd, obs>>
  /\ UNCHANGED poolVars
  /\ UNCHANGED ioVars
  /\ UNCHANGED serviceVars

----------------------------------------------------------------------------
(* FileUtils.readJsonFile and the operation body that follows it *)

(* a readJsonFile whose catch returns the default for every error *)
readJsonFileOr_Swallow(content, ioError, defaultValue) ==
  IF ~ioError /\ content # NoFile /\ IsJson(content)
  THEN [out |-> "parsed", val |-> Parse(content)]
  ELSE [out |-> "default", val |-> defaultValue]

(* readJsonFile(filePath, defaultValue) with its three outcomes told apart: *)
(* the default when readFile fails with ENOENT, the parsed document when    *)
(* the text parses, an exception otherwise (JSON.parse fails, or readFile   *)
(* fails with an error other than ENOENT: ioError)                          *)
readJsonFileOr(content, ioError, defaultValue) ==
  IF ioError THEN [out |-> "threw"]
  ELSE IF content = NoFile THEN [out |-> "default", val |-> defaultValue]
  ELSE IF IsJson(content) THEN [out |-> "parsed", val |-> Parse(content)]
  ELSE [out |-> "threw"]

(* readJsonFile(filePath, {}) as the repositories call it *)
readJsonFile(content, ioError) ==
  LET r == readJsonFileOr(content, ioError, EmptyDoc)
  IN [threw |-> r.out = "threw", doc |-> IF r.out = "threw" THEN EmptyDoc ELSE r.val]

(* readChatHistory / readMemories: `catch (error) { ...; return {}; }` *)
readDocument(content, ioError) ==
  LET r == readJsonFile(content, ioError)
  IN [failed |-> r.threw, doc |-> IF r.threw THEN EmptyDoc ELSE r.doc]

(* The read completes; the body of the operation runs up to its next await *)
(* (the fs.access of writeJsonFile) or to its return.                      *)
ReadDone(p, ioError) ==
  LET rd == readDocument(path[repo(p)], ioError)
      b == Body(call[p], rd.doc, now)
      o == [obs[p] EXCEPT !.base = rd.doc, !.at = now, !.readFailed = rd.failed,
                          !.ret = b.ret,
                          !.val = IF "val" \in DOMAIN b THEN b.val ELSE NoValue]
  IN /\ pc[p] = "read"
     /\ IF b.write
        THEN /\ pc' = [pc EXCEPT ![p] = "access"]
             /\ local' = [local EXCEPT ![p] = b.doc]
             /\ obs' = [obs EXCEPT ![p] = o]
             /\ UNCHANGED lockMap
        ELSE Leave(p, FALSE, o)
     /\ UNCHANGED <<path, tmp, dirExists, now, calls, call, fd>>
     /\ UNCHANGED poolVars
     /\ UNCHANGED ioVars
     /\ UNCHANGED serviceVars

(* fs.readFile returns the text of the file, or fails with ENOENT *)
Read(p) == ReadDone(p, FALSE) /\ UNCHANGED faults

(* fs.readFile fails with an error other than ENOENT *)
ReadFault(p) ==
  /\ faults < MaxFaults
  /\ faults' = faults + 1
  /\ ReadDone(p, TRUE)

----------------------------------------------------------------------------
(* storeRelationship and storeConversationContext: getUserMemory, then     *)
(* updateMemory with the category changed in the profile that was read     *)

(* the getUserMemory a composite update begins with *)
IsComposite(c) == c.op = "getUserMemory" /\ "then" \in DOMAIN c.a

(* storeRelationship(userId, type, name, details) up to its first await *)
storeRelationship(p, k, type, name, details, max) ==
  Call(p, [op |-> "getUserMemory", key |-> k,
           a |-> [then |-> "storeRelationship", type |-> type, name |-> name,
                  details |-> details]], max)

(* storeConversationContext(userId, context) up to its first await *)
storeConversationContext(p, k, context, max) ==
  Call(p, [op |-> "getUserMemory", key |-> k,
           a |-> [then |-> "storeConversationContext", context |-> context]], max)

(* The read of getUserMemory completes and the composite goes on in the    *)
(* same turn: it changes the category in the profile it got and calls      *)
(* updateMemory, whose acquireLock runs up to its first await.             *)
ThenUpdateMemory(p) ==
  LET k == call[p].key
      a == call[p].a
      rd == readDocument(path["mem"], FALSE)
      memories == getUserMemoryBody(rd.doc, k, now).val
      category == IF a.then = "storeRelationship" THEN "relationships"
                  ELSE "conversationContext"
      data == IF a.then = "storeRelationship"
              THEN storeRelationshipData(memories, a, now)
              ELSE storeConversationContextData(memories, a, now)
  IN /\ pc[p] = "read"
     /\ IsComposite(call[p])
     /\ call' = [call EXCEPT ![p] =
                   [op |-> "updateMemory", key |-> k,
                    a |-> [category |-> category, data |-> data, merge |-> FALSE,
                           of |-> a]]]
     /\ obs' = [obs EXCEPT ![p] = NoObs]
     /\ local' = [local EXCEPT ![p] = EmptyDoc]
     /\ IF LockFree("mem", k)
        THEN /\ pc' = [pc EXCEPT ![p] = "read"]
             /\ lockMap' = LockSet("mem", k)
        ELSE /\ pc' = [pc EXCEPT ![p] = "wait"]
             /\ UNCHANGED lockMap
     /\ UNCHANGED <<path, tmp, dirExists, now, calls, faults, fd>>
     /\ UNCHANGED poolVars
     /\ UNCHANGED ioVars
     /\ UNCHANGED serviceVars

----------------------------------------------------------------------------
(* FileUtils.writeJsonFile: ensureDir, writeFile(tempFile), rename *)

(* ensureDir: fs.access(dirPath) *)
Access(p) ==
  /\ pc[p] = "access"
  /\ pc' = [pc EXCEPT ![p] = IF dirExists THEN "open" ELSE "mkdir"]
  /\ UNCHANGED <<path, tmp, dirExists, lockMap, now, calls, faults, call, local, fd, obs>>
  /\ UNCHANGED poolVars
  /\ UNCHANGED ioVars
  /\ UNCHANGED serviceVars

(* ensureDir: fs.mkdir(dirPath, { recursive: true }) *)
Mkdir(p) ==
  /\ pc[p] = "mkdir"
  /\ dirExists' = TRUE
  /\ pc' = [pc EXCEPT ![p] = "open"]
  /\ UNCHANGED <<path, tmp, lockMap, now, calls, faults, call, local, fd, obs>>
  /\ UNCHANGED poolVars
  /\ UNCHANGED ioVars
  /\ UNCHANGED serviceVars

(* fs.writeFile, first half: the temporary file is opened with flag 'w',   *)
(* which creates it or truncates the file the name already refers to       *)
Open(p) ==
  /\ pc[p] = "open"
  /\ tmp' = [tmp EXCEPT ![repo(p)] = Partial]
  /\ fd' = [fd EXCEPT ![p] = "tmp"]
  /\ pc' = [pc EXCEPT ![p] = "write"]
  /\ UNCHANGED <<path, dirExists, lockMap, now, calls, faults, call, local, obs>>
  /\ UNCHANGED poolVars
  /\ UNCHANGED ioVars
  /\ UNCHANGED serviceVars

(* a write that reads the stored document again and changes its own key *)
WrittenText_Reread(p) ==
  LET cur == readDocument(path[repo(p)], FALSE).doc
      k == call[p].key
  IN Stringify(IF HasKey(local[p], k) THEN SetKey(cur, k, local[p][k]) ELSE DelKey(cur, k))

(* the text a call writes into the file it has open *)
WrittenText(p) == Stringify(local[p])

(* fs.writeFile, second half: the text is written through the open         *)
(* descriptor, to wherever that file now is, and the descriptor is closed  *)
Write(p) ==
  /\ pc[p] = "write"
  /\ tmp' = IF fd[p] = "tmp" THEN [tmp EXCEPT ![repo(p)] = WrittenText(p)] ELSE tmp
  /\ path' = IF fd[p] = "path" THEN [path EXCEPT ![repo(p)] = WrittenText(p)] ELSE path
  /\ fd' = [fd EXCEPT ![p] = "none"]
  /\ pc' = [pc EXCEPT ![p] = "rename"]
  /\ UNCHANGED <<dirExists, lockMap, now, calls, faults, call, local, obs>>
  /\ UNCHANGED poolVars
  /\ UNCHANGED ioVars
  /\ UNCHANGED serviceVars

(* the open descriptors after the temporary file of r is renamed onto path:*)
(* the file that was at tmp is now at path, the one that was at path has   *)
(* no name any more                                                        *)
FdAfterRename(r) ==
  [q \in Procs |->
     IF pc[q] = "write" /\ repo(q) = r
     THEN (IF fd[q] = "tmp" THEN "path" ELSE "orphan")
     ELSE fd[q]]

(* fs.rename(tempFile, filePath); the operation then returns *)
Rename(p) ==
  /\ pc[p] = "rename"
  /\ IF tmp[repo(p)] = NoFile
     THEN /\ Leave(p, TRUE, [obs[p] EXCEPT !.writeFailed = TRUE])
          /\ UNCHANGED <<path, tmp, fd>>
     ELSE /\ path' = [path EXCEPT ![repo(p)] = tmp[repo(p)]]
          /\ tmp' = [tmp EXCEPT ![repo(p)] = NoFile]
          /\ fd' = FdAfterRename(repo(p))
          /\ Leave(p, FALSE, [obs[p] EXCEPT !.renamed = TRUE])
  /\ UNCHANGED <<dirExists, now, calls, faults, call>>
  /\ UNCHANGED poolVars
  /\ UNCHANGED ioVars
  /\ UNCHANGED serviceVars

(* A stage of writeJsonFile fails (EACCES, ENOSPC, EIO, ...): the error is *)
(* logged and rethrown to the operation, whose finally releases the lock   *)
WriteFault(p) ==
  /\ pc[p] \in WriteStages
  /\ faults < MaxFaults
  /\ faults' = faults + 1
  /\ fd' = [fd EXCEPT ![p] = "none"]
  /\ Leave(p, TRUE, [obs[p] EXCEPT !.writeFailed = TRUE])
  /\ UNCHANGED <<path, tmp, dirExists, now, calls, call>>
  /\ UNCHANGED poolVars
  /\ UNCHANGED ioVars
  /\ UNCHANGED serviceVars

(* Time passes *)
Tick ==
  /\ now + TickStep <= MaxTime
  /\ now' = now + TickStep
  /\ UNCHANGED <<path, tmp, dirExists, lockMap, calls, faults, pc, call, local, fd, obs>>
  /\ UNCHANGED poolVars
  /\ UNCHANGED ioVars
  /\ UNCHANGED serviceVars

----------------------------------------------------------------------------
(* The credential pool of GeminiClient *)

(* Array.from(this.clients.keys()): the key indices in insertion order *)
RECURSIVE KeysFrom(_)
KeysFrom(i) == IF i >= NumKeys THEN <<>> ELSE <<i>> \o KeysFrom(i + 1)

clientKeys == KeysFrom(0)

(* the client indices without the filter *)
availableKeys_NoFilter(failed) == clientKeys

(* .filter(index => !this.failedKeys.has(index)) *)
availableKeys(failed) == FilterSeq(clientKeys, clients \ failed)

(* the loop of getLeastUsedKey over keysToCheck[from..], holding the least *)
(* used key found so far                                                   *)
RECURSIVE LeastUsedFrom(_, _, _, _)
LeastUsedFrom(keysToCheck, from, leastUsedKey, usage) ==
  IF from > Len(keysToCheck) THEN leastUsedKey
  ELSE LeastUsedFrom(keysToCheck, from + 1,
                     IF usage[keysToCheck[from]] < usage[leastUsedKey]
                     THEN keysToCheck[from] ELSE leastUsedKey,
                     usage)

(* a scan that replaces the key held on an equal usage count *)
RECURSIVE LeastUsedFrom_LastOnTie(_, _, _, _)
LeastUsedFrom_LastOnTie(keysToCheck, from, leastUsedKey, usage) ==
  IF from > Len(keysToCheck) THEN leastUsedKey
  ELSE LeastUsedFrom_LastOnTie(keysToCheck, from + 1,
                     IF usage[keysToCheck[from]] <= usage[leastUsedKey]
                     THEN keysToCheck[from] ELSE leastUsedKey,
                     usage)

(* getLeastUsedKey with `usage <= minUsage` *)
getLeastUsedKey_LastOnTie(keysToCheck, usage) ==
  LeastUsedFrom_LastOnTie(keysToCheck, 1, keysToCheck[1], usage)

(* getLeastUsedKey without its loop: the first key of the list *)
getLeastUsedKey_FirstKey(keysToCheck, usage) == keysToCheck[1]

(* getLeastUsedKey(availableKeys) on a non-empty list *)
getLeastUsedKey(keysToCheck, usage) ==
  LeastUsedFrom(keysToCheck, 1, keysToCheck[1], usage)

(* getNextKeyIndex without `this.failedKeys.clear()` *)
getNextKeyIndex_NoClear(failed, usage) ==
  IF Len(availableKeys(failed)) = 0
  THEN [key |-> getLeastUsedKey(clientKeys, usage), failedKeys |-> failed]
  ELSE [key |-> getLeastUsedKey(availableKeys(failed), usage), failedKeys |-> failed]

(* getNextKeyIndex: the key it returns and this.failedKeys as it leaves it *)
getNextKeyIndex(failed, usage) ==
  IF Len(availableKeys(failed)) = 0
  THEN [key |-> getLeastUsedKey(clientKeys, usage), failedKeys |-> {}]
  ELSE [key |-> getLeastUsedKey(availableKeys(failed), usage), failedKeys |-> failed]

(* One pass of the loop of generateContent up to its first await, as the   *)
(* pool sees it: getNextKeyIndex, trackKeyUsage, and the request is sent    *)
selectKey(p, max) ==
  LET next == getNextKeyIndex(failedKeys, keyUsageCount)
  IN /\ gpc[p] = "idle"
     /\ selects < max
     /\ selects' = selects + 1
     /\ failedKeys' = next.failedKeys
     /\ gkey' = [gkey EXCEPT ![p] = next.key]
     /\ keyUsageCount' = [keyUsageCount EXCEPT ![next.key] = @ + 1]
     /\ keyLastUsed' = [keyLastUsed EXCEPT ![next.key] = now]
     /\ gpc' = [gpc EXCEPT ![p] = "sending"]
     /\ markedAt' = IF Len(availableKeys(failedKeys)) = 0
                    THEN [i \in clients |-> [markedAt[i] EXCEPT !.cleared = TRUE]]
                    ELSE markedAt
     /\ UNCHANGED <<timers, sweepDue, now>>
     /\ UNCHANGED storeVars
     /\ UNCHANGED ioVars
     /\ UNCHANGED serviceVars

(* An attempt of some generateContent call, whichever pass of its loop it  *)
(* is: the pool does not depend on the locals of the call                  *)
Attempt(p, max) ==
  /\ selectKey(p, max)
  /\ UNCHANGED gen

(* the causes of a failed attempt: the words generateContent looks for in  *)
(* error.message, or none of them                                          *)
ErrorKinds == {"API_KEY_INVALID", "quota", "rate limit", "other"}

(* a test that leaves out 'API_KEY_INVALID' *)
Quarantines_NoAuth(kind) == kind \in {"quota", "rate limit"}

(* error.message.includes('API_KEY_INVALID') || .includes('quota') ||      *)
(* .includes('rate limit'): the test before markKeyAsFailed                *)
Quarantines(kind) == kind \in {"API_KEY_INVALID", "quota", "rate limit"}

(* error.message.includes('quota') || error.message.includes('rate limit') *)
SchedulesCooldown(kind) == kind \in {"quota", "rate limit"}

(* the catch block as the pool sees it: markKeyAsFailed(keyIndex, error)   *)
(* when the message has one of the three words                             *)
classify(p, kind) ==
  /\ gpc[p] = "sending"
  /\ gpc' = [gpc EXCEPT ![p] = "idle"]
  /\ IF ~Quarantines(kind)
     THEN UNCHANGED <<failedKeys, keyLastUsed, timers, markedAt>>
     ELSE /\ failedKeys' = failedKeys \cup {gkey[p]}
          /\ keyLastUsed' = [keyLastUsed EXCEPT ![gkey[p]] = now]
          /\ markedAt' = [markedAt EXCEPT ![gkey[p]] =
                            [at |-> now, quota |-> SchedulesCooldown(kind),
                             cleared |-> FALSE]]
          /\ timers' = IF SchedulesCooldown(kind)
                       THEN timers \cup {[key |-> gkey[p], due |-> now + CooldownMillis]}
                       ELSE timers
  /\ UNCHANGED <<keyUsageCount, sweepDue, selects, gkey, now>>
  /\ UNCHANGED storeVars
  /\ UNCHANGED ioVars
  /\ UNCHANGED serviceVars

(* a response as the pool sees it: nothing of the pool changes *)
received(p) ==
  /\ gpc[p] = "sending"
  /\ gpc' = [gpc EXCEPT ![p] = "idle"]
  /\ UNCHANGED <<failedKeys, keyUsageCount, keyLastUsed, timers, sweepDue, selects,
                 gkey, markedAt, now>>
  /\ UNCHANGED storeVars
  /\ UNCHANGED ioVars
  /\ UNCHANGED serviceVars

(* The request of call p returns a response *)
Respond(p) ==
  /\ received(p)
  /\ UNCHANGED gen

(* The request of call p fails; markKeyAsFailed runs unless the error is   *)
(* of another kind                                                         *)
Fail(p, kind) ==
  /\ classify(p, kind)
  /\ UNCHANGED gen

(* A cooldown timer of markKeyAsFailed fires *)
Cooldown(t) ==
  /\ t \in timers
  /\ now >= t.due
  /\ failedKeys' = failedKeys \ {t.key}
  /\ timers' = timers \ {t}
  /\ UNCHANGED <<keyUsageCount, keyLastUsed, sweepDue, selects, gpc, gkey, markedAt, now,
                 gen>>
  /\ UNCHANGED storeVars
  /\ UNCHANGED ioVars
  /\ UNCHANGED serviceVars

(* a sweep that clears every quarantine whatever its age *)
Sweep_NoAgeTest ==
  /\ now >= sweepDue
  /\ failedKeys' = {}
  /\ sweepDue' = sweepDue + SweepInterval
  /\ UNCHANGED <<keyUsageCount, keyLastUsed, timers, selects, gpc, gkey, markedAt, now,
                 gen>>
  /\ UNCHANGED storeVars
  /\ UNCHANGED ioVars
  /\ UNCHANGED serviceVars

(* The interval timer of startKeyRotation fires *)
Sweep ==
  /\ now >= sweepDue
  /\ failedKeys' = {i \in failedKeys : ~(now - keyLastUsed[i] > SweepAge)}
  /\ sweepDue' = sweepDue + SweepInterval
  /\ UNCHANGED <<keyUsageCount, keyLastUsed, timers, selects, gpc, gkey, markedAt, now,
                 gen>>
  /\ UNCHANGED storeVars
  /\ UNCHANGED ioVars
  /\ UNCHANGED serviceVars

(* Time passes, up to the next timer that is due *)
PoolTick(step, max) ==
  /\ now + step <= max
  /\ now < sweepDue
  /\ \A t \in timers : now < t.due
  /\ now' = now + step
  /\ UNCHANGED poolVars
  /\ UNCHANGED ioVars
  /\ UNCHANGED serviceVars
  /\ UNCHANGED storeVars

(* concurrent generateContent calls over a minute *)
NextPool ==
  \/ \E p \in Procs : Attempt(p, MaxSelects)
  \/ \E p \in Procs : Respond(p)
  \/ \E p \in Procs, kind \in ErrorKinds : Fail(p, kind)
  \/ \E t \in timers : Cooldown(t)
  \/ Sweep
  \/ PoolTick(PoolTickStep, MaxPoolTime)

SpecPool == Init /\ [][NextPool]_vars

(* a few attempts and the minutes after them; timers fire when due and     *)
(* the clock goes on while it is below its bound                           *)
NextSweep ==
  \/ \E p \in Procs : Attempt(p, MaxSweepSelects)
  \/ \E p \in Procs : Respond(p)
  \/ \E p \in Procs, kind \in ErrorKinds : Fail(p, kind)
  \/ \E t \in timers : Cooldown(t)
  \/ Sweep
  \/ PoolTick(SweepTickStep, MaxSweepTime)

SpecSweep ==
  /\ Init
  /\ [][NextSweep]_vars
  /\ WF_vars(Sweep)
  /\ WF_vars(PoolTick(SweepTickStep, MaxSweepTime))
  /\ WF_vars(\E t \in timers : Cooldown(t))

----------------------------------------------------------------------------
(* FileUtils.writeJsonFile and readJsonFile on their own *)

(* the values of the documents: null, strings, arrays and objects of       *)
(* these, and the values JSON has no text for                              *)
JsonAtoms == {Null, Str("a"), Undefined, NaN}

FieldNames == {"x", "y"}

JsonValues ==
  JsonAtoms
     \cup {Arr(e) : e \in UNION {[1..n -> JsonAtoms] : n \in 0..MaxJsonLen}}
     \cup {Obj(f) : f \in UNION {[S -> JsonAtoms] : S \in SUBSET FieldNames}}

(* the documents handed to writeJsonFile: the empty one, those of one     *)
(* entity key, and those with the same value under every entity key       *)
JsonDocs ==
  {Obj(NoFields)}
     \cup {Obj([k \in {x} |-> v]) : x \in Keys, v \in JsonValues}
     \cup {Obj([k \in Keys |-> v]) : v \in JsonValues}

(* the default values handed to readJsonFile *)
Defaults == {Obj(NoFields), Arr(<<>>)}

(* the files found at start: none, a document, or the first tokens of one *)
StartContents ==
  LET StartDocs == {Obj(NoFields), Obj([k \in {"k1"} |-> Arr(<<Str("a"), Null>>)])}
  IN {NoFile}
        \cup UNION {{TextFile(SubSeq(JsonText(d), 1, n)) : n \in 0..Len(JsonText(d))} :
                       d \in StartDocs}

IoRepo == "db"

InitIO ==
  /\ path \in {[r \in Repos |-> IF r = IoRepo THEN c ELSE NoFile] : c \in StartContents}
  /\ tmp = [r \in Repos |-> NoFile]
  /\ dirExists = FALSE
  /\ lockMap = [r \in Repos |-> {}]
  /\ now = 0
  /\ calls = 0
  /\ faults = 0
  /\ pc = [p \in Procs |-> "idle"]
  /\ call = [p \in Procs |-> NoCall]
  /\ local = [p \in Procs |-> EmptyDoc]
  /\ fd = [p \in Procs |-> "none"]
  /\ obs = [p \in Procs |-> NoObs]
  /\ InitPool
  /\ io = NoIo
  /\ InitService

(* writeJsonFile(filePath, data) with no other call under way: ensureDir,  *)
(* writeFile of the text to filePath.tmp, rename onto filePath             *)
WriteJsonFile(r, data) ==
  /\ dirExists' = TRUE
  /\ tmp' = [tmp EXCEPT ![r] = NoFile]
  /\ path' = [path EXCEPT ![r] = TextFile(JsonText(data))]
  /\ io' = [NoIo EXCEPT !.op = "write", !.written = TRUE, !.data = data]
  /\ UNCHANGED <<lockMap, now, calls, faults, pc, call, local, fd, obs>>
  /\ UNCHANGED poolVars
  /\ UNCHANGED serviceVars

(* readJsonFile(filePath, defaultValue); ioError: readFile fails with an   *)
(* error other than ENOENT                                                 *)
ReadJsonFile(r, defaultValue, ioError) ==
  /\ io' = [io EXCEPT !.op = "read", !.ioError = ioError, !.default = defaultValue,
                      !.res = readJsonFileOr(path[r], ioError, defaultValue)]
  /\ UNCHANGED <<path, tmp, dirExists, lockMap, now, calls, faults, pc, call, local,
                 fd, obs>>
  /\ UNCHANGED poolVars
  /\ UNCHANGED serviceVars

NextIO ==
  \/ \E data \in JsonDocs : WriteJsonFile(IoRepo, data)
  \/ \E defaultValue \in Defaults, ioError \in BOOLEAN :
        ReadJsonFile(IoRepo, defaultValue, ioError)

SpecIO == InitIO /\ [][NextIO]_vars

----------------------------------------------------------------------------
(* The retry loop of generateContent *)

(* the characters of a response: a letter and white space *)
Chars == {"a", " "}

WhiteSpace == {" "}

(* result.text(): the strings of at most MaxTextLen characters *)
Texts == UNION {[1..n -> Chars] : n \in 0..MaxTextLen}

(* String.prototype.trimStart and trimEnd *)
RECURSIVE TrimStart(_)
TrimStart(s) ==
  IF Len(s) > 0 /\ Head(s) \in WhiteSpace THEN TrimStart(Tail(s)) ELSE s

RECURSIVE TrimEnd(_)
TrimEnd(s) ==
  IF Len(s) > 0 /\ s[Len(s)] \in WhiteSpace
  THEN TrimEnd(SubSeq(s, 1, Len(s) - 1)) ELSE s

(* String.prototype.trim *)
Trim(s) == TrimEnd(TrimStart(s))

(* a test of `!fullResponse` alone *)
IsEmptyResponse_NoTrim(text) == Len(text) = 0

(* !fullResponse || fullResponse.trim().length === 0 *)
IsEmptyResponse(text) == Len(text) = 0 \/ Len(Trim(text)) = 0

(* a loop with `attempts <= maxRetries` *)
catch_ExtraPass(g, kind, t) ==
  LET attempts == g.attempts + 1
  IN IF attempts <= g.maxRetries
     THEN [g EXCEPT !.attempts = attempts, !.lastError = kind,
                    !.onlyQuota = @ /\ kind = "quota",
                    !.state = "backoff", !.wakeAt = t + (2 ^ attempts) * 1000]
     ELSE [g EXCEPT !.attempts = attempts, !.lastError = kind,
                    !.onlyQuota = @ /\ kind = "quota",
                    !.state = "threw", !.error = kind, !.wakeAt = 0]

(* a delay of Math.pow(2, attempts - 1) * 1000 *)
catch_HalfDelay(g, kind, t) ==
  LET attempts == g.attempts + 1
  IN IF attempts < g.maxRetries
     THEN [g EXCEPT !.attempts = attempts, !.lastError = kind,
                    !.onlyQuota = @ /\ kind = "quota",
                    !.state = "backoff",
                    !.wakeAt = t + (2 ^ (attempts - 1)) * 1000]
     ELSE [g EXCEPT !.attempts = attempts, !.lastError = kind,
                    !.onlyQuota = @ /\ kind = "quota",
                    !.state = "threw", !.error = kind, !.wakeAt = 0]

(* a catch block with `attempts = 1` for `attempts++` *)
catch_CountOnce(g, kind, t) ==
  IF 1 < g.maxRetries
  THEN [g EXCEPT !.attempts = 1, !.lastError = kind,
                 !.onlyQuota = @ /\ kind = "quota",
                 !.state = "backoff", !.wakeAt = t + 2000]
  ELSE [g EXCEPT !.attempts = 1, !.lastError = kind,
                 !.onlyQuota = @ /\ kind = "quota",
                 !.state = "threw", !.error = kind, !.wakeAt = 0]

(* a catch block without `attempts++` *)
catch_NoCount(g, kind, t) ==
  IF g.attempts < g.maxRetries
  THEN [g EXCEPT !.lastError = kind, !.onlyQuota = @ /\ kind = "quota",
                 !.state = "backoff", !.wakeAt = t + (2 ^ g.attempts) * 1000]
  ELSE [g EXCEPT !.lastError = kind, !.onlyQuota = @ /\ kind = "quota",
                 !.state = "threw", !.error = kind, !.wakeAt = 0]

(* the catch block on the locals of the call: lastError = error,           *)
(* attempts++, then the backoff sleep when attempts < maxRetries, and      *)
(* otherwise the loop ends and the terminal error is thrown with the       *)
(* message of lastError                                                    *)
catch(g, kind, t) ==
  LET attempts == g.attempts + 1
  IN IF attempts < g.maxRetries
     THEN [g EXCEPT !.attempts = attempts, !.lastError = kind,
                    !.onlyQuota = @ /\ kind = "quota",
                    !.state = "backoff", !.wakeAt = t + (2 ^ attempts) * 1000]
     ELSE [g EXCEPT !.attempts = attempts, !.lastError = kind,
                    !.onlyQuota = @ /\ kind = "quota",
                    !.state = "threw", !.error = kind, !.wakeAt = 0]

(* A turn of the conversation: { role, parts: [{ text }] }; a text is the  *)
(* sequence of its pieces                                                  *)
Turn(role, text) == [role |-> role, text |-> text]

Piece(s) == [k |-> "text", v |-> s]

(* contextInfo followed by "\n\n": the time context, which names the       *)
(* minute of the clock, and the system prompt (memorySummary is null)      *)
contextInfo(t) == <<[k |-> "time", minute |-> t \div 60000], [k |-> "prompt"]>>

(* The turns after lines 184-191: aiHistory = [...conversationHistory]     *)
(* copies the array, not the turns, so the assignment to                   *)
(* lastMessage.parts[0].text changes the last turn of the caller too       *)
withContext(conversationHistory, t) ==
  LET n == Len(conversationHistory)
      lastMessage == conversationHistory[n]
  IN IF n > 0 /\ lastMessage.role = "user"
     THEN [conversationHistory EXCEPT ![n].text = contextInfo(t) \o lastMessage.text]
     ELSE conversationHistory

(* chat.sendMessage(lastMessage.parts[0].text) on the turns as they are now *)
sendMessage(g, aiHistory) ==
  [g EXCEPT !.history = aiHistory,
            !.sent = Append(@, aiHistory[Len(aiHistory)].text)]

(* generateContent(conversationHistory, null, null, maxRetries) is called  *)
(* with at least one turn and runs to its first await                      *)
Generate(p, conversationHistory, maxRetries, max) ==
  /\ gen[p].state \in {"idle", "returned", "threw"}
  /\ maxRetries >= 1
  /\ Len(conversationHistory) > 0
  /\ selectKey(p, max)
  /\ gen' = [gen EXCEPT ![p] =
               sendMessage([NoGen EXCEPT !.state = "running",
                                         !.maxRetries = maxRetries,
                                         !.sends = 1,
                                         !.turns = conversationHistory],
                           withContext(conversationHistory, now))]

(* The backoff sleep of call p ends and the loop makes its next pass *)
Retry(p, max) ==
  /\ gen[p].state = "backoff"
  /\ now >= gen[p].wakeAt
  /\ selectKey(p, max)
  /\ gen' = [gen EXCEPT ![p] =
               sendMessage([@ EXCEPT !.state = "running", !.sends = @ + 1],
                           withContext(@.history, now))]

(* the turns callers pass in SpecGen, SpecRetry and SpecTerm: one message *)
OneTurn == <<Turn("user", <<Piece("hi")>>)>>

(* The request of call p is answered with a text: it is returned trimmed,  *)
(* or an empty one is thrown into the catch block                          *)
Response(p, text) ==
  /\ gen[p].state = "running"
  /\ IF IsEmptyResponse(text)
     THEN /\ classify(p, "empty")
          /\ gen' = [gen EXCEPT ![p] = catch(@, "empty", now)]
     ELSE /\ received(p)
          /\ gen' = [gen EXCEPT ![p].state = "returned", ![p].text = Trim(text),
                                ![p].wakeAt = 0]

(* The request of call p throws *)
Failure(p, kind) ==
  /\ gen[p].state = "running"
  /\ classify(p, kind)
  /\ gen' = [gen EXCEPT ![p] = catch(@, kind, now)]

(* the caller of SpecGen: one generateContent call after another *)
GenCaller == CHOOSE p \in Procs : TRUE

(* generateContent calls of one caller, each with its retries and backoff  *)
(* sleeps                                                                  *)
NextGen ==
  \/ \E maxRetries \in 1..MaxRetriesBound :
        Generate(GenCaller, OneTurn, maxRetries, MaxGenSelects)
  \/ Retry(GenCaller, MaxGenSelects)
  \/ \E text \in Texts : Response(GenCaller, text)
  \/ \E kind \in ErrorKinds : Failure(GenCaller, kind)
  \/ PoolTick(GenTickStep, MaxGenTime)

SpecGen == Init /\ [][NextGen]_vars

(* concurrent generateContent calls up to their second attempts, answered  *)
(* with a text, an invalid-key error or an error of another kind           *)
NextRetry ==
  \/ \E p \in Procs, maxRetries \in 1..MaxRetriesBound :
        Generate(p, OneTurn, maxRetries, MaxRetrySelects)
  \/ \E p \in Procs : Retry(p, MaxRetrySelects)
  \/ \E p \in Procs : Response(p, <<"a">>)
  \/ \E p \in Procs, kind \in {"API_KEY_INVALID", "other"} : Failure(p, kind)
  \/ PoolTick(GenTickStep, MaxRetryTime)

SpecRetry == Init /\ [][NextRetry]_vars

(* Time passes until the timer of the backoff sleep of call p is due *)
Wake(p) ==
  /\ gen[p].state = "backoff"
  /\ now < gen[p].wakeAt
  /\ gen[p].wakeAt <= sweepDue
  /\ \A t \in timers : gen[p].wakeAt <= t.due
  /\ now' = gen[p].wakeAt
  /\ UNCHANGED poolVars
  /\ UNCHANGED storeVars
  /\ UNCHANGED ioVars
  /\ UNCHANGED serviceVars

(* generateContent calls of one caller in which every request is answered  *)
(* or fails, and every backoff sleep ends                                   *)
NextTerm ==
  \/ \E maxRetries \in 1..MaxRetriesBound :
        Generate(GenCaller, OneTurn, maxRetries, MaxGenSelects)
  \/ Retry(GenCaller, MaxGenSelects)
  \/ \E text \in Texts : Response(GenCaller, text)
  \/ \E kind \in ErrorKinds : Failure(GenCaller, kind)
  \/ Wake(GenCaller)

(* generateContent calls of one caller with one, two or three turns, the  *)
(* last of them a message of the user or a reply of the model              *)
Histories ==
  {OneTurn,
   <<Turn("user", <<Piece("hi")>>), Turn("model", <<Piece("hello")>>)>>,
   <<Turn("user", <<Piece("hi")>>), Turn("model", <<Piece("hello")>>),
     Turn("user", <<Piece("bye")>>)>>}

NextTurns ==
  \/ \E conversationHistory \in Histories, maxRetries \in 1..MaxRetriesBound :
        Generate(GenCaller, conversationHistory, maxRetries, MaxGenSelects)
  \/ Retry(GenCaller, MaxGenSelects)
  \/ \E text \in Texts : Response(GenCaller, text)
  \/ \E kind \in ErrorKinds : Failure(GenCaller, kind)
  \/ Wake(GenCaller)

SpecTurns == Init /\ [][NextTurns]_vars

SpecTerm ==
  /\ Init
  /\ [][NextTerm]_vars
  /\ WF_vars(\/ \E text \in Texts : Response(GenCaller, text)
             \/ \E kind \in ErrorKinds : Failure(GenCaller, kind))
  /\ WF_vars(Wake(GenCaller))
  /\ WF_vars(Retry(GenCaller, MaxGenSelects))

----------------------------------------------------------------------------
(* The calls the callers make, and the specification *)

Contexts == {"sad"}

(* every mutating operation of both repositories; addMessage and           *)
(* updateMemory on both keys, the other operations on one key each         *)
CallInputs ==
  {AddMessage(k, "user", "hi", FALSE) : k \in Keys}
  \cup {UpdateMemory(k, "academicInfo", Obj([stream |-> Str("science")]), TRUE) : k \in Keys}
  \cup {StoreContact("k1", "Ann", "0771"),
        ClearMessagesForSender("k2"),
        AddToMemoryArray("k1", "lifeEvents", "recentEvents", Str("exam"), 15),
        ClearUserMemory("k2")}
  \cup {StoreEmotionalContext("k2", c) : c \in Contexts}

Next ==
  \/ \E p \in Procs, c \in CallInputs : Call(p, c, MaxCalls)
  \/ \E p \in Procs : Poll(p)
  \/ \E p \in Procs : Read(p)
  \/ \E p \in Procs : ReadFault(p)
  \/ \E p \in Procs : Access(p)
  \/ \E p \in Procs : Mkdir(p)
  \/ \E p \in Procs : Open(p)
  \/ \E p \in Procs : Write(p)
  \/ \E p \in Procs : Rename(p)
  \/ \E p \in Procs : WriteFault(p)

Spec == Init /\ [][Next]_vars

----------------------------------------------------------------------------
(* N concurrent calls on one key, each call changing something of its own, *)
(* with no storage fault: every process makes one call.                    *)

Mark(p) == ToString(p)

SameKeyInputs(p) ==
  {AddMessage("k1", "user", Mark(p), FALSE),
   UpdateMemory("k1", "academicInfo", Obj([f \in {Mark(p)} |-> Str("1")]), TRUE),
   AddToMemoryArray("k1", "lifeEvents", "recentEvents", Str(Mark(p)), 15)}

CallOnce(p, c) == pc[p] = "idle" /\ Call(p, c, NumProcs)

(* the steps the event loop takes for call p once its I/O completes *)
Step(p) ==
  \/ Poll(p)
  \/ Read(p)
  \/ Access(p)
  \/ Mkdir(p)
  \/ Open(p)
  \/ Write(p)
  \/ Rename(p)

NextSameKey ==
  \/ \E p \in Procs : \E c \in SameKeyInputs(p) : CallOnce(p, c)
  \/ \E p \in Procs : Step(p)

SpecSameKey == Init /\ [][NextSameKey]_vars /\ \A p \in Procs : WF_vars(Step(p))

----------------------------------------------------------------------------
(* The history of one key over time: messages with the same role and       *)
(* content, forced or not, with emotional-context entries between them.    *)

DedupInputs ==
  {AddMessage("k1", "user", "hi", force) : force \in BOOLEAN}
  \cup {StoreEmotionalContext("k1", c) : c \in Contexts}

(* one caller, which makes a call when the previous one has returned: the *)
(* lock serializes the operations of one key, so their interleavings are   *)
(* the orders in which they take the lock (the caller never waits for it)  *)
Caller == CHOOSE p \in Procs : TRUE

NextDedup ==
  \/ \E c \in DedupInputs : Call(Caller, c, MaxDedupCalls)
  \/ Read(Caller)
  \/ Access(Caller)
  \/ Mkdir(Caller)
  \/ Open(Caller)
  \/ Write(Caller)
  \/ Rename(Caller)
  \/ Tick

SpecDedup == Init /\ [][NextDedup]_vars

----------------------------------------------------------------------------
(* One array of a Profile over time: sequential addToMemoryArray calls     *)
(* into lifeEvents.recentEvents of one key, each with an item of its own.  *)
(* The n-th call inserts the string n or the object {name: n}.             *)

TrimItems(n) == {Str(ToString(n)), Obj([name |-> Str(ToString(n))])}

TrimInputs(n) ==
  {AddToMemoryArray("k1", "lifeEvents", "recentEvents", item, TrimMax) : item \in TrimItems(n)}

NextTrim ==
  \/ \E c \in TrimInputs(calls + 1) : Call(Caller, c, MaxTrimCalls)
  \/ Read(Caller)
  \/ Access(Caller)
  \/ Mkdir(Caller)
  \/ Open(Caller)
  \/ Write(Caller)
  \/ Rename(Caller)
  \/ Tick

SpecTrim == Init /\ [][NextTrim]_vars

----------------------------------------------------------------------------
(* The history of one key under every history-document operation, called   *)
(* one after the other.                                                    *)

CapInputs ==
  {AddMessage("k1", "user", "hi", TRUE),
   StoreContact("k1", "Ann", "0771"),
   ClearMessagesForSender("k1")}
  \cup {StoreEmotionalContext("k1", c) : c \in Contexts}

NextCap ==
  \/ \E c \in CapInputs : Call(Caller, c, MaxCapCalls)
  \/ Read(Caller)
  \/ Access(Caller)
  \/ Mkdir(Caller)
  \/ Open(Caller)
  \/ Write(Caller)
  \/ Rename(Caller)

SpecCap == Init /\ [][NextCap]_vars

----------------------------------------------------------------------------
(* One category of a Profile over time: sequential updateMemory calls on   *)
(* one key with an object, an array or null as data, merging or replacing. *)

MergeData ==
  {Obj([stream |-> Str("science")]),
   Obj([weakSubjects |-> Arr(<<Str("Chemistry")>>)]),
   Arr(<<Str("Chemistry")>>),
   Null}

MergeInputs ==
  {UpdateMemory("k1", category, data, merge) :
     category \in {"academicInfo", "notes"}, data \in MergeData, merge \in BOOLEAN}

NextMerge ==
  \/ \E c \in MergeInputs : Call(Caller, c, MaxMergeCalls)
  \/ Read(Caller)
  \/ Access(Caller)
  \/ Mkdir(Caller)
  \/ Open(Caller)
  \/ Write(Caller)
  \/ Rename(Caller)
  \/ Tick

SpecMerge == Init /\ [][NextMerge]_vars

----------------------------------------------------------------------------
(* Concurrent profile updates on both keys while time passes, with no      *)
(* storage fault.                                                          *)

ClockInputs ==
  {UpdateMemory(k, "academicInfo", Obj([stream |-> Str("science")]), TRUE) : k \in Keys}
  \cup {AddToMemoryArray("k1", "lifeEvents", "recentEvents", Str("exam"), 15)}

NextClock ==
  \/ \E p \in Procs, c \in ClockInputs : Call(p, c, MaxClockCalls)
  \/ \E p \in Procs : Poll(p)
  \/ \E p \in Procs : Read(p)
  \/ \E p \in Procs : Access(p)
  \/ \E p \in Procs : Mkdir(p)
  \/ \E p \in Procs : Open(p)
  \/ \E p \in Procs : Write(p)
  \/ \E p \in Procs : Rename(p)
  \/ Tick

SpecClock == Init /\ [][NextClock]_vars

----------------------------------------------------------------------------
(* The getters of both repositories, called while writers run and while    *)
(* fs.readFile can fail.                                                   *)

ReadInputs ==
  {AddMessage("k1", "user", "hi", TRUE),
   UpdateMemory("k1", "academicInfo", Obj([stream |-> Str("science")]), TRUE)}
  \cup {GetMessagesForSender(k) : k \in Keys}
  \cup {GetUserMemory(k) : k \in Keys}

NextRead ==
  \/ \E p \in Procs, c \in ReadInputs : Call(p, c, MaxReadCalls)
  \/ \E p \in Procs : Poll(p)
  \/ \E p \in Procs : Read(p)
  \/ \E p \in Procs : ReadFault(p)
  \/ \E p \in Procs : Access(p)
  \/ \E p \in Procs : Mkdir(p)
  \/ \E p \in Procs : Open(p)
  \/ \E p \in Procs : Write(p)
  \/ \E p \in Procs : Rename(p)

SpecRead == Init /\ [][NextRead]_vars

----------------------------------------------------------------------------
(* storeRelationship and storeConversationContext calls for one user *)

(* the `context` arguments: a topic, or an issue and a thing to remember *)
ComposeContexts ==
  LET NoContext == [topic |-> Undef, issue |-> Undef, remember |-> Undef]
  IN {[NoContext EXCEPT !.topic = "exams"], [NoContext EXCEPT !.topic = "music"],
      [NoContext EXCEPT !.issue = "sleep", !.remember = "trip"]}

NextCompose ==
  \/ \E p \in Procs, name \in {"Ann", "Bob"} :
        storeRelationship(p, "k1", "friends", name, Obj(NoFields), MaxComposeCalls)
  \/ \E p \in Procs, context \in ComposeContexts :
        storeConversationContext(p, "k1", context, MaxComposeCalls)
  \/ \E p \in Procs : ThenUpdateMemory(p)
  \/ \E p \in Procs : Poll(p)
  \/ \E p \in Procs : ~IsComposite(call[p]) /\ Read(p)
  \/ \E p \in Procs : Access(p)
  \/ \E p \in Procs : Mkdir(p)
  \/ \E p \in Procs : Open(p)
  \/ \E p \in Procs : Write(p)
  \/ \E p \in Procs : Rename(p)

SpecCompose == Init /\ [][NextCompose]_vars

----------------------------------------------------------------------------
(* Concurrent storeContact calls of one user, with names that differ in    *)
(* case only, and time passing between them                                *)

ContactInputs ==
  {StoreContact("k1", name, number) :
     name \in {"Ann", "ann", "Bob"}, number \in {"0771", "0772"}}

NextContact ==
  \/ \E p \in Procs, c \in ContactInputs : Call(p, c, MaxContactCalls)
  \/ \E p \in Procs : Step(p)
  \/ PoolTick(EmoTickStep, MaxEmoTime)

SpecContact == Init /\ [][NextContact]_vars

----------------------------------------------------------------------------
(* More than ten emotional contexts of one user, stored one after the      *)
(* other among forced messages, some within the same millisecond           *)

EmoInputs ==
  {AddMessage("k1", "user", "hi", TRUE)}
  \cup {StoreEmotionalContext("k1", c) : c \in Contexts}

NextEmo ==
  \/ \E c \in EmoInputs : Call(Caller, c, MaxEmoCalls)
  \/ Read(Caller)
  \/ Access(Caller)
  \/ Mkdir(Caller)
  \/ Open(Caller)
  \/ Write(Caller)
  \/ Rename(Caller)
  \/ PoolTick(EmoTickStep, MaxEmoTime)

SpecEmo == Init /\ [][NextEmo]_vars

----------------------------------------------------------------------------
(* Properties *)

(* the value a document holds for key k: <<v>>, or <<>> when k is absent *)
KeyValue(d, k) == IF HasKey(d, k) THEN <<d[k]>> ELSE <<>>

Holders(r, k) == {p \in Procs : InCriticalSection(p) /\ repo(p) = r /\ call[p].key = k}

(* C1: for every repository and key, at most one call is between its       *)
(* acquireLock and its releaseLock, so two critical sections of one key    *)
(* never overlap.                                                          *)
C1_MutualExclusion ==
  \A r \in Repos, k \in Keys : Cardinality(Holders(r, k)) <= 1

(* a call holds the lock of a key while another call polls for the same key *)
C1_Witness ==
  \E p, q \in Procs :
     /\ p # q
     /\ InCriticalSection(p)
     /\ pc[q] = "wait"
     /\ repo(p) = repo(q)
     /\ call[p].key = call[q].key

(* what call p changed is in the stored document of its repository *)
Reflected(p) ==
  LET c == path[repo(p)]
      d == Parse(c)
      k == call[p].key
  IN /\ IsJson(c)
     /\ HasKey(d, k)
     /\ CASE call[p].op = "addMessage" ->
               \E i \in 1..Len(d[k]) : d[k][i].content = call[p].a.content
          [] call[p].op = "updateMemory" ->
               \A f \in DOMAIN call[p].a.data.v :
                  /\ f \in DOMAIN d[k].academicInfo.v
                  /\ d[k].academicInfo.v[f] = call[p].a.data.v[f]
          [] call[p].op = "addToMemoryArray" ->
               \E i \in 1..Len(d[k].lifeEvents.v.recentEvents.v) :
                  d[k].lifeEvents.v.recentEvents.v[i].v.content = call[p].a.item
          [] OTHER -> FALSE

AllCalled == \A p \in Procs : pc[p] # "idle"

AllReflected ==
  \A p \in Procs : pc[p] = "done" /\ obs[p].outcome = "returned" /\ Reflected(p)

(* C2: once N calls on one key have been made (each changing something of  *)
(* its own, no storage fault), every call completes and the stored value   *)
(* of the key holds the change of every one of the N calls.                *)
C2_SameKeySerialization == AllCalled ~> AllReflected

(* all N calls have returned, two of them were the same operation on the   *)
(* same document, and the change of each is stored                         *)
C2_Witness ==
  /\ AllReflected
  /\ \E p, q \in Procs : p # q /\ call[p].op = call[q].op

(* C3: a call writes back the whole document it read, changed at its own   *)
(* key only: the value it writes for every other key is the one it read,   *)
(* so a write by a call that read before another key's update was stored   *)
(* discards that update.                                                   *)
C3_StaleWrite ==
  \A p \in Procs :
     pc[p] \in WriteStages =>
        \A k \in Keys \ {call[p].key} :
           KeyValue(Parse(WrittenText(p)), k) = KeyValue(obs[p].base, k)

(* two calls on distinct keys of one document read the same pre-update     *)
(* document, both wrote and returned, and the stored document holds the    *)
(* change of the second writer but not the entry the first writer added    *)
C3_Witness ==
  \E p, q \in Procs :
     /\ p # q
     /\ repo(p) = repo(q)
     /\ call[p].key # call[q].key
     /\ pc[p] = "done" /\ pc[q] = "done"
     /\ obs[p].renamed /\ obs[q].renamed
     /\ obs[p].outcome = "returned" /\ obs[q].outcome = "returned"
     /\ obs[p].base = obs[q].base
     /\ call[p].op \in {"addMessage", "updateMemory"}
     /\ call[q].op \in {"addMessage", "updateMemory"}
     /\ IsJson(path[repo(p)])
     /\ ~HasKey(Parse(path[repo(p)]), call[p].key)
     /\ HasKey(Parse(path[repo(p)]), call[q].key)

(* C4: the content at path is absent or one complete document *)
C4_NoPartialDocument ==
  \A r \in Repos : path[r] = NoFile \/ IsJson(path[r])

(* C5: a step of a write before its rename (directory creation, opening    *)
(* and writing the temporary file, or a failure at one of these) leaves    *)
(* the document at path as it was.                                         *)
C5_CrashAtomicity ==
  [][\A p \in Procs :
       (pc[p] \in {"access", "mkdir", "open", "write"} /\ pc'[p] # pc[p]) => path' = path]_vars

(* C6: a mutating operation whose document read or write failed ends by    *)
(* raising the failure to its caller.                                      *)
C6_FailurePropagates ==
  \A p \in Procs :
     (pc[p] = "done" /\ TakesLock(call[p].op) /\ (obs[p].readFailed \/ obs[p].writeFailed))
        => obs[p].outcome = "threw"

(* C7: a call that found the stored document unreadable (parse failure or  *)
(* an I/O failure other than not-found) does not replace the document.     *)
C7_NoAutoRepair ==
  \A p \in Procs : obs[p].readFailed => ~obs[p].renamed

(* C8: a key is in the lock table exactly while a call is between its      *)
(* acquireLock and its releaseLock for that key; every exit path releases, *)
(* so with no call in flight the table is empty.                           *)
C8_LockReleased ==
  \A r \in Repos, k \in Keys : (k \in lockMap[r]) <=> (Holders(r, k) # {})

(* one call has returned null as a duplicate, another has completed its    *)
(* write, no call is in flight and the lock tables are empty               *)
C8_Witness ==
  /\ \A p \in Procs : pc[p] \in {"idle", "done"}
  /\ \E p \in Procs : pc[p] = "done" /\ obs[p].ret = "null"
  /\ \E p \in Procs : pc[p] = "done" /\ obs[p].renamed
  /\ \A r \in Repos : lockMap[r] = {}

(* call p has finished its read and run the body of its operation *)
PastRead(p) == pc[p] \in WriteStages \cup {"done"}

(* the entries of its key in the document call p read *)
ReadEntries(p) == EntriesOf(obs[p].base, call[p].key)

(* entry i of list l has the role and content of addMessage call p *)
SameMessage(p, l, i) ==
  /\ l[i].role = call[p].a.role
  /\ l[i].content = call[p].a.content

(* the entries of key k in the stored history document *)
Stored(k) ==
  IF IsJson(path["db"]) THEN EntriesOf(Parse(path["db"]), k) ELSE <<>>

(* C9 as claimed: the stored history of a key never holds two non-forced   *)
(* entries of the same role and content stamped less than 5 seconds apart, *)
(* whatever was stored between them.                                       *)
C9_DedupAlways ==
  \A k \in Keys :
     \A i, j \in 1..Len(Stored(k)) :
        (/\ i < j
         /\ Stored(k)[i].role # Undef
         /\ Stored(k)[i].role = Stored(k)[j].role
         /\ Stored(k)[i].content = Stored(k)[j].content
         /\ ~Stored(k)[i].forceDuplicate
         /\ ~Stored(k)[j].forceDuplicate)
        => Stored(k)[j].timestamp - Stored(k)[i].timestamp >= DedupMillis

(* C9 amended: a non-forced addMessage call that reads a history in which  *)
(* an entry of the same role and content, stamped less than 5 seconds      *)
(* before, is among the last 5 entries of the key stores nothing: it       *)
(* returns null and does not write.                                        *)
C9_DedupRecent ==
  \A p \in Procs :
     (/\ call[p].op = "addMessage"
      /\ ~call[p].a.force
      /\ PastRead(p)
      /\ \E i \in 1..Len(ReadEntries(p)) :
            /\ i > Len(ReadEntries(p)) - RecentWindow
            /\ SameMessage(p, ReadEntries(p), i)
            /\ obs[p].at - ReadEntries(p)[i].timestamp < DedupMillis)
     => (pc[p] = "done" /\ obs[p].ret = "null" /\ ~obs[p].renamed)

(* a call returned null because of an entry stamped earlier (but less than *)
(* 5 seconds earlier) that is not the last entry of the key                *)
C9_Witness ==
  \E p \in Procs :
     /\ call[p].op = "addMessage"
     /\ pc[p] = "done"
     /\ obs[p].ret = "null"
     /\ \E i \in 1..Len(ReadEntries(p)) :
           /\ i < Len(ReadEntries(p))
           /\ i > Len(ReadEntries(p)) - RecentWindow
           /\ SameMessage(p, ReadEntries(p), i)
           /\ obs[p].at - ReadEntries(p)[i].timestamp > 0
           /\ obs[p].at - ReadEntries(p)[i].timestamp < DedupMillis
     /\ Stored(call[p].key) = ReadEntries(p)

(* C10: an addMessage call that reads a history whose entries of the same  *)
(* role and content were all stamped more than 5 seconds before stores an  *)
(* Entry: the list it writes ends with the new Entry, stamped now, after   *)
(* the entries it read in their order (less the oldest ones beyond the     *)
(* maximum history length), and the call returns the Entry.                *)
C10_WindowExpiry ==
  \A p \in Procs :
     (/\ call[p].op = "addMessage"
      /\ PastRead(p)
      /\ \E i \in 1..Len(ReadEntries(p)) : SameMessage(p, ReadEntries(p), i)
      /\ \A i \in 1..Len(ReadEntries(p)) :
            SameMessage(p, ReadEntries(p), i)
               => obs[p].at - ReadEntries(p)[i].timestamp > DedupMillis)
     => /\ obs[p].ret = "value"
        /\ pc[p] = "done" => (obs[p].renamed /\ obs[p].outcome = "returned")
        /\ pc[p] \in WriteStages =>
             LET old == ReadEntries(p)
                 new == local[p][call[p].key]
                 drop == Len(old) + 1 - Len(new)
             IN /\ Len(new) = IF Len(old) + 1 > maxChatHistory
                              THEN maxChatHistory ELSE Len(old) + 1
                /\ new[Len(new)].role = call[p].a.role
                /\ new[Len(new)].content = call[p].a.content
                /\ new[Len(new)].timestamp = obs[p].at
                /\ \A j \in 1..(Len(new) - 1) : new[j] = old[j + drop]

(* the stored history of a key holds two non-forced entries of the same    *)
(* role and content stamped more than 5 seconds apart, in call order       *)
C10_Witness ==
  \E k \in Keys :
     \E i, j \in 1..Len(Stored(k)) :
        /\ i < j
        /\ Stored(k)[i].role # Undef
        /\ Stored(k)[i].role = Stored(k)[j].role
        /\ Stored(k)[i].content = Stored(k)[j].content
        /\ ~Stored(k)[i].forceDuplicate
        /\ ~Stored(k)[j].forceDuplicate
        /\ Stored(k)[j].timestamp - Stored(k)[i].timestamp > DedupMillis

(* the stored profile document, {} when there is none *)
StoredMem == IF IsJson(path["mem"]) THEN Parse(path["mem"]) ELSE EmptyDoc

(* the stored lifeEvents.recentEvents array of key k *)
RecentEvents(k) ==
  IF HasKey(StoredMem, k) THEN StoredMem[k].lifeEvents.v.recentEvents.v ELSE <<>>

(* the number of the call that inserted stored item e *)
ItemNo(e) == IF "content" \in DOMAIN e.v THEN e.v.content.v ELSE e.v.name.v

(* the number of calls of the caller that have returned *)
Completed == IF pc[Caller] \in {"idle", "done"} THEN calls ELSE calls - 1

(* C11: after M > maxItems sequential addToMemoryArray calls with distinct  *)
(* items into one array, the stored array has exactly maxItems elements,   *)
(* which are the items of the last maxItems calls, newest first: element i *)
(* is the item of call M - i + 1.                                          *)
C11_TrimInvariant ==
  Completed > TrimMax =>
     /\ Len(RecentEvents("k1")) = TrimMax
     /\ \A i \in 1..TrimMax : ItemNo(RecentEvents("k1")[i]) = ToString(Completed - i + 1)

(* maxItems + 2 calls have returned: two items were evicted, the front of  *)
(* the stored array is the item of the last call                           *)
C11_Witness ==
  /\ pc[Caller] = "done"
  /\ calls = TrimMax + 2
  /\ Len(RecentEvents("k1")) = TrimMax
  /\ ItemNo(RecentEvents("k1")[1]) = ToString(calls)

(* C12: the stored entry list of a key never has more entries than the     *)
(* configured maximum history length.                                      *)
C12_HistoryCap ==
  \A k \in Keys : Len(Stored(k)) <= maxChatHistory

(* the Profile of its key that updateMemory call p read (the empty profile *)
(* when the key was absent)                                                *)
ReadProfile(p) == ProfileOf(obs[p].base, call[p].key, obs[p].at)

(* the category value call p found: <<v>>, or <<>> when there was none *)
ReadCategory(p) ==
  IF call[p].a.category \in DOMAIN ReadProfile(p)
  THEN <<ReadProfile(p)[call[p].a.category]>> ELSE <<>>

(* C13: an updateMemory(key, category, data, merge) call stores, when      *)
(* merge is true and the existing category value is an object that is not  *)
(* an array, a category with every field of data at data's value and every *)
(* other existing field unchanged; in all other cases it stores data.      *)
C13_MergeSemantics ==
  \A p \in Procs :
     (call[p].op = "updateMemory" /\ pc[p] \in WriteStages) =>
        LET new == local[p][call[p].key][call[p].a.category]
            data == call[p].a.data
        IN IF call[p].a.merge /\ ReadCategory(p) # <<>> /\ ReadCategory(p)[1].t = "obj"
           THEN LET old == ReadCategory(p)[1].v
                IN /\ new.t = "obj"
                   /\ DOMAIN new.v = DOMAIN old \cup DOMAIN Spread(data)
                   /\ \A f \in DOMAIN Spread(data) : new.v[f] = Spread(data)[f]
                   /\ \A f \in DOMAIN old \ DOMAIN Spread(data) : new.v[f] = old[f]
           ELSE new = data

(* C14 as claimed: across every step, lastUpdated of a key whose Profile   *)
(* is stored before and after the step does not decrease, whatever the     *)
(* interleaving of operations on any keys.                                 *)
C14_Monotonic ==
  [][\A k \in Keys :
       (HasKey(StoredMem, k) /\ HasKey(StoredMem, k)')
          => StoredMem[k].lastUpdated <= StoredMem[k].lastUpdated']_vars

(* C14 amended: the document an updateMemory / addToMemoryArray call       *)
(* writes carries, for the key of the call, lastUpdated equal to the time  *)
(* of the mutation, which is not earlier than the lastUpdated of the       *)
(* Profile the call read.                                                  *)
C14_LastUpdatedSet ==
  \A p \in Procs :
     (call[p].op \in {"updateMemory", "addToMemoryArray"} /\ pc[p] \in WriteStages) =>
        /\ local[p][call[p].key].lastUpdated = obs[p].at
        /\ HasKey(obs[p].base, call[p].key)
              => obs[p].base[call[p].key].lastUpdated <= obs[p].at

(* an update of a Profile last updated earlier has been stored: the stored *)
(* lastUpdated is the time of the later mutation                           *)
C14_Witness ==
  \E p \in Procs :
     /\ call[p].op \in {"updateMemory", "addToMemoryArray"}
     /\ pc[p] = "done"
     /\ obs[p].renamed
     /\ HasKey(obs[p].base, call[p].key)
     /\ obs[p].base[call[p].key].lastUpdated < obs[p].at
     /\ HasKey(StoredMem, call[p].key)
     /\ StoredMem[call[p].key].lastUpdated = obs[p].at

(* the stored document of repository r, {} when there is none *)
StoredDoc(r) == IF IsJson(path[r]) THEN Parse(path[r]) ELSE EmptyDoc

DeleteOps == {"clearMessagesForSender", "clearUserMemory"}

(* the step is taken by a call on key k of repository r whose operation is *)
(* in ops                                                                  *)
StepOf(r, k, ops) ==
  \E p \in Procs :
     /\ pc'[p] # pc[p]
     /\ call[p].op \in ops
     /\ repo(p) = r
     /\ call[p].key = k

(* C15 as claimed: a key of the stored document disappears only in a step  *)
(* of a delete operation for that key, and an absent key appears only in a *)
(* step of a write to that key, whatever runs on other keys.               *)
C15_Lifecycle ==
  [][\A r \in Repos, k \in Keys :
       (IsJson(path[r]) /\ IsJson(path[r])') =>
          /\ (HasKey(StoredDoc(r), k) /\ ~HasKey(StoredDoc(r), k)')
                => StepOf(r, k, DeleteOps)
          /\ (~HasKey(StoredDoc(r), k) /\ HasKey(StoredDoc(r), k)')
                => StepOf(r, k, (DbOps \cup MemOps) \ DeleteOps)]_vars

(* C15 amended: in the document a call writes, the key of the call is      *)
(* absent exactly when the operation is a delete, and every other key is   *)
(* present exactly when it was present in the document the call read.      *)
C15_OwnKeyLifecycle ==
  \A p \in Procs :
     pc[p] \in WriteStages =>
        /\ HasKey(local[p], call[p].key) <=> call[p].op \notin DeleteOps
        /\ \A k \in Keys \ {call[p].key} :
              HasKey(local[p], k) <=> HasKey(obs[p].base, k)

(* a delete that read its key as present has been stored, and the key is   *)
(* absent from the stored document                                         *)
C15_Witness ==
  \E p \in Procs :
     /\ call[p].op \in DeleteOps
     /\ pc[p] = "done"
     /\ obs[p].renamed
     /\ HasKey(obs[p].base, call[p].key)
     /\ IsJson(path[repo(p)])
     /\ ~HasKey(StoredDoc(repo(p)), call[p].key)

Getters == {"getMessagesForSender", "getUserMemory"}

(* the schema default a getter of repository r returns at clock reading t *)
SchemaDefault(r, t) == IF r = "db" THEN <<>> ELSE createEmptyMemoryProfile(t)

(* C16: a getter returns the value the stored document holds for its key,  *)
(* or the schema default when the key is absent, and no step of a getter   *)
(* changes the stored document, the temporary file or the lock table.      *)
C16_PureRead ==
  [][\A p \in Procs :
       (call'[p].op \in Getters /\ pc'[p] # pc[p]) =>
          /\ path' = path
          /\ tmp' = tmp
          /\ lockMap' = lockMap
          /\ pc'[p] = "done" =>
                obs'[p].val = IF HasKey(StoredDoc(repo(p)), call[p].key)
                              THEN StoredDoc(repo(p))[call[p].key]
                              ELSE SchemaDefault(repo(p), now)]_vars

(* call p makes a key selection in this step *)
Selects(p) == gpc[p] = "idle" /\ gpc'[p] = "sending"

(* the credentials that are not quarantined *)
NonQuarantined == clients \ failedKeys

(* C17: when some credential is not quarantined, the key a selection       *)
(* returns is not quarantined, has the least usage count of the            *)
(* non-quarantined keys, and is the lowest index of those with that count. *)
C17_Selection ==
  [][\A p \in Procs :
       (Selects(p) /\ NonQuarantined # {}) =>
          /\ gkey'[p] \in NonQuarantined
          /\ \A j \in NonQuarantined :
                /\ keyUsageCount[gkey'[p]] <= keyUsageCount[j]
                /\ keyUsageCount[gkey'[p]] = keyUsageCount[j] => gkey'[p] <= j]_vars

(* an attempt holds a key other than the first one, selected for its lower *)
(* usage count while no key was quarantined                                *)
C17_Witness ==
  \E p \in Procs :
     /\ gpc[p] = "sending"
     /\ gkey[p] # 0
     /\ failedKeys = {}
     /\ \A i \in clients : markedAt[i] = NeverMarked
     /\ keyUsageCount[gkey[p]] <= keyUsageCount[0]

(* C18: every selection returns the index of an initialised credential,    *)
(* and a selection made when every credential is quarantined leaves no     *)
(* credential quarantined.                                                 *)
C18_NeverFailsClosed ==
  [][\A p \in Procs :
       Selects(p) =>
          /\ gkey'[p] \in clients
          /\ NonQuarantined = {} => failedKeys' = {}]_vars

(* every credential was marked failed for an invalid key at time 0, and an *)
(* attempt made at time 0 holds a key: the selection cleared the flags     *)
C18_Witness ==
  /\ now = 0
  /\ \A i \in clients : markedAt[i].at = 0 /\ ~markedAt[i].quota
  /\ failedKeys = {}
  /\ \E p \in Procs : gpc[p] = "sending"

(* C19: a selection made less than 60 s after credential i was last marked *)
(* failed with a quota or rate-limit error, while another credential is    *)
(* not quarantined, does not return i, whatever failures and resets of i   *)
(* came before that mark (the pool was not reset since).                   *)
C19_Cooldown ==
  [][\A p \in Procs :
       (/\ Selects(p)
        /\ markedAt[gkey'[p]].quota
        /\ ~markedAt[gkey'[p]].cleared
        /\ now < markedAt[gkey'[p]].at + CooldownMillis)
       => NonQuarantined \ {gkey'[p]} = {}]_vars

(* no attempt holds key i *)
NotHeld(i) == \A p \in Procs : ~(gpc[p] = "sending" /\ gkey[p] = i)

(* C20: the sweep clears no quarantine that is 5 minutes old or younger,   *)
(* and a credential that is quarantined, for whatever cause, while no      *)
(* attempt holds it, is un-quarantined later (the clock of the model       *)
(* leaving the time for it).                                               *)
C20_QuarantineEnds ==
  /\ [][\A i \in clients :
          (sweepDue' # sweepDue /\ i \in failedKeys /\ i \notin failedKeys')
             => now - markedAt[i].at > SweepAge]_vars
  /\ \A i \in clients :
        (/\ i \in failedKeys
         /\ NotHeld(i)
         /\ now + SweepAge + SweepTickStep <= MaxSweepTime)
        ~> (i \notin failedKeys)

(* a credential marked failed for an invalid key more than 5 minutes ago   *)
(* is not quarantined, and no other credential was ever marked: the sweep  *)
(* cleared the quarantine                                                  *)
C20_Witness ==
  \E i \in clients :
     /\ markedAt[i].at >= 0
     /\ ~markedAt[i].quota
     /\ now - markedAt[i].at > SweepAge
     /\ i \notin failedKeys
     /\ \A j \in clients \ {i} : markedAt[j] = NeverMarked

----------------------------------------------------------------------------
(* The retry loop of generateContent: properties *)

(* the attempt of call p ends in the catch block in this step *)
Fails(p) == gen[p].state = "running" /\ gen'[p].state \in {"backoff", "threw"}

(* the message of the error the catch block of call p has just caught *)
Caught(p) == IF gen'[p].state = "threw" THEN gen'[p].error ELSE gen'[p].lastError

(* an invalid key, an exhausted quota, a rate limit *)
AuthQuotaOrRate == {"API_KEY_INVALID", "quota", "rate limit"}

(* C21: the step in which an attempt fails with an authentication, quota   *)
(* or rate-limit error leaves the credential of that attempt quarantined   *)
(* (the step of the next selection comes after it), and the step in which  *)
(* an attempt fails with any other error, an empty response included,      *)
(* leaves the set of quarantined credentials as it was.                    *)
C21_Classification ==
  [][\A p \in Procs :
        Fails(p) =>
           IF Caught(p) \in AuthQuotaOrRate
           THEN gkey[p] \in failedKeys' /\ failedKeys' = failedKeys \cup {gkey[p]}
           ELSE failedKeys' = failedKeys]_vars

(* a call sleeps before its next attempt after an invalid-key error, and  *)
(* the credential of the failed attempt is the one quarantined             *)
C21_Witness ==
  \E p \in Procs :
     /\ gen[p].state = "backoff"
     /\ gen[p].lastError = "API_KEY_INVALID"
     /\ failedKeys = {gkey[p]}

(* call p makes its next attempt in this step, after the backoff sleep *)
Retries(p) == gen[p].state = "backoff" /\ gen'[p].state = "running"

(* C22 as stated: with at least two credentials, the attempt that follows  *)
(* an attempt on credential i that failed with an authentication, quota or *)
(* rate-limit error uses a credential other than i.                        *)
C22_AnotherCredential ==
  [][\A p \in Procs :
        (Retries(p) /\ gen[p].lastError \in AuthQuotaOrRate /\ NumKeys >= 2)
           => gkey'[p] # gkey[p]]_vars

(* C22 amended: the attempt that follows an attempt on credential i that   *)
(* failed with an authentication, quota or rate-limit error uses a         *)
(* credential other than i when, at its selection, i is still quarantined  *)
(* and some credential is not quarantined.                                 *)
C22_AnotherWhenAvailable ==
  [][\A p \in Procs :
        (/\ Retries(p)
         /\ gen[p].lastError \in AuthQuotaOrRate
         /\ gkey[p] \in failedKeys
         /\ NonQuarantined # {})
           => gkey'[p] # gkey[p]]_vars

(* the only call made is in its second attempt after an invalid-key       *)
(* error, on a credential that is not quarantined while the one of its     *)
(* first attempt is                                                        *)
C22_Witness ==
  \E p \in Procs :
     /\ gen[p].state = "running"
     /\ gen[p].sends = 2
     /\ gen[p].lastError = "API_KEY_INVALID"
     /\ selects = 2
     /\ gkey[p] \notin failedKeys
     /\ failedKeys # {}

(* a text with a character that is not white space *)
NonBlank(text) == \E i \in 1..Len(text) : text[i] \notin WhiteSpace

(* C23: the text generateContent returns is never empty or white space     *)
(* only; an attempt answered with an empty or white-space-only text is a   *)
(* failed attempt: it is counted, and the call goes on to its next attempt *)
(* when attempts remain and throws otherwise.                              *)
C23_EmptyIsFailure ==
  [][\A p \in Procs :
        /\ gen'[p].state = "returned" => NonBlank(gen'[p].text)
        /\ (Fails(p) /\ Caught(p) = "empty") =>
              IF gen[p].attempts + 1 < gen[p].maxRetries
              THEN /\ gen'[p].state = "backoff"
                   /\ gen'[p].attempts = gen[p].attempts + 1
              ELSE gen'[p].state = "threw"]_vars

(* a call has made its second attempt after an empty response             *)
C23_Witness ==
  \E p \in Procs :
     /\ gen[p].state = "running"
     /\ gen[p].sends = 2
     /\ gen[p].lastError = "empty"

(* C24: a call whose attempts so far all failed with a quota error, and    *)
(* whose N-th attempt (1 <= N <= maxRetries) is answered with a text,      *)
(* returns that text trimmed having sent exactly N requests, one more than *)
(* the errors it caught; and the step in which an attempt fails with a     *)
(* quota error leaves the credential of that attempt quarantined.          *)
C24_RetrySuccess ==
  [][\A p \in Procs :
        /\ (gen[p].state = "running" /\ gen'[p].state = "returned" /\ gen[p].onlyQuota)
              => /\ gen'[p].sends = gen[p].attempts + 1
                 /\ gen'[p].sends \in 1..gen[p].maxRetries
                 /\ NonBlank(gen'[p].text)
                 /\ gen'[p].text = Trim(gen'[p].text)
        /\ (Fails(p) /\ Caught(p) = "quota")
              => /\ gkey[p] \in failedKeys'
                 /\ markedAt'[gkey[p]].at = now]_vars

(* a call with maxRetries = 3 has returned a text from its third attempt   *)
(* after two quota errors                                                  *)
C24_Witness ==
  \E p \in Procs :
     /\ gen[p].state = "returned"
     /\ gen[p].maxRetries = 3
     /\ gen[p].sends = 3
     /\ gen[p].attempts = 2
     /\ gen[p].onlyQuota

(* C25: a call with maxRetries = R >= 1 sends at most R requests; it       *)
(* throws its terminal error exactly when it has caught R errors, that is  *)
(* when each of its R requests failed, and the terminal error carries the  *)
(* message of the error of the last attempt.                               *)
C25_Exhaustion ==
  \A p \in Procs :
     gen[p].state # "idle" =>
        /\ gen[p].maxRetries >= 1
        /\ gen[p].sends <= gen[p].maxRetries
        /\ gen[p].state = "threw" <=> gen[p].attempts = gen[p].maxRetries
        /\ gen[p].state = "threw" =>
              /\ gen[p].sends = gen[p].maxRetries
              /\ gen[p].error = gen[p].lastError
              /\ gen[p].error \in ErrorKinds \cup {"empty"}

(* a call with maxRetries = 3 has thrown after three requests, the last    *)
(* of which failed with an error that quarantines nothing, while a         *)
(* credential is quarantined                                               *)
C25_Witness ==
  \E p \in Procs :
     /\ gen[p].state = "threw"
     /\ gen[p].maxRetries = 3
     /\ gen[p].sends = 3
     /\ gen[p].error = "other"
     /\ failedKeys # {}

(* the sleep after the k-th failed attempt, in milliseconds: 2 s doubled   *)
(* k - 1 times                                                             *)
RECURSIVE BackoffMillis(_)
BackoffMillis(k) == IF k <= 1 THEN 2000 ELSE 2 * BackoffMillis(k - 1)

(* C26: the k-th failed attempt of a call is followed, when attempts       *)
(* remain, by a sleep that ends 2^k seconds after the failure, and attempt *)
(* k+1 is not made before the sleep has ended; the final failed attempt is *)
(* followed by no sleep: the call throws in the step of the failure.       *)
C26_Backoff ==
  [][\A p \in Procs :
        /\ Fails(p) =>
              IF gen'[p].attempts < gen[p].maxRetries
              THEN /\ gen'[p].state = "backoff"
                   /\ gen'[p].wakeAt = now + BackoffMillis(gen'[p].attempts)
              ELSE /\ gen'[p].state = "threw"
                   /\ gen'[p].wakeAt = 0
        /\ Retries(p) =>
              /\ now >= gen[p].wakeAt
              /\ gen'[p].sends = gen[p].attempts + 1]_vars

(* a call makes its third attempt at 6 s: its first attempt failed at 0 s, *)
(* the second at 2 s when the first sleep ended, and the second sleep of   *)
(* 4 s has just ended                                                      *)
C26_Witness ==
  \E p \in Procs :
     /\ gen[p].state = "running"
     /\ gen[p].sends = 3
     /\ gen[p].wakeAt = 6000
     /\ now = 6000
     /\ selects = 3

----------------------------------------------------------------------------
(* FileUtils: properties *)

(* a value JSON has a text for: no undefined and no NaN in it *)
RECURSIVE WellFormed(_)
WellFormed(x) ==
  CASE x.t \in {"undefined", "nan"} -> FALSE
    [] x.t = "arr" -> \A i \in 1..Len(x.v) : WellFormed(x.v[i])
    [] x.t = "obj" -> \A f \in DOMAIN x.v : WellFormed(x.v[f])
    [] OTHER -> TRUE

(* C27: a readJsonFile that follows the writeJsonFile of a well-formed     *)
(* document d, with no write between them and no failure of the read,      *)
(* returns a document equal to d.                                          *)
C27_RoundTrip ==
  (io.op = "read" /\ io.written /\ ~io.ioError /\ WellFormed(io.data))
     => /\ io.res.out = "parsed"
        /\ io.res.val = io.data

(* a document of two entities, each an object with a null and a string,   *)
(* was written and read back                                               *)
C27_Witness ==
  /\ io.op = "read"
  /\ io.written
  /\ ~io.ioError
  /\ io.data = Obj([k \in Keys |->
                      Obj([x \in FieldNames |-> IF x = "x" THEN Null ELSE Str("a")])])
  /\ io.res.out = "parsed"
  /\ io.res.val = io.data

(* the file readJsonFile has just read *)
ReadContent == path[IoRepo]

(* C28: readJsonFile returns the supplied default exactly when the path    *)
(* does not exist (readFile fails with ENOENT); it returns the parsed      *)
(* document exactly when the file is read and its text parses; and it      *)
(* throws, returning no default, when the text does not parse or readFile  *)
(* fails with any other error.                                             *)
C28_ReadOutcomes ==
  io.op = "read" =>
     /\ io.res.out \in {"default", "parsed", "threw"}
     /\ io.res.out = "default" <=> (~io.ioError /\ ReadContent = NoFile)
     /\ io.res.out = "default" => io.res.val = io.default
     /\ io.res.out = "parsed" <=>
           (~io.ioError /\ ReadContent # NoFile /\ JsonParse(ReadContent.text).ok)
     /\ io.res.out = "parsed" => io.res.val = JsonParse(ReadContent.text).val
     /\ io.res.out = "threw" <=>
           (io.ioError \/ (ReadContent # NoFile /\ ~JsonParse(ReadContent.text).ok))

(* readJsonFile threw on a file that holds the first tokens of a document, *)
(* with no failure of readFile                                             *)
C28_Witness ==
  /\ io.op = "read"
  /\ ~io.ioError
  /\ ReadContent # NoFile
  /\ Len(ReadContent.text) > 0
  /\ io.res.out = "threw"

----------------------------------------------------------------------------
(* Locks of distinct keys *)

(* call p is made in this step *)
IsCalled(p) == pc[p] \in {"idle", "done"} /\ pc'[p] \notin {"idle", "done"}

(* C29: a call whose key is not held in the lock table of its repository   *)
(* takes the lock in the step in which it is made, without waiting,        *)
(* whatever other keys are held at that moment.                            *)
C29_IndependentKeys ==
  [][\A p \in Procs :
        (/\ IsCalled(p)
         /\ TakesLock(call'[p].op)
         /\ call'[p].key \notin lockMap[RepoOf(call'[p].op)])
           => /\ pc'[p] = "read"
              /\ call'[p].key \in lockMap'[RepoOf(call'[p].op)]
              /\ lockMap[RepoOf(call'[p].op)] \subseteq lockMap'[RepoOf(call'[p].op)]]_vars

(* two calls of one repository are in their critical sections at the same  *)
(* time, on distinct keys                                                  *)
C29_Witness ==
  \E p, q \in Procs :
     /\ p # q
     /\ InCriticalSection(p)
     /\ InCriticalSection(q)
     /\ repo(p) = repo(q)
     /\ call[p].key # call[q].key
     /\ {call[p].key, call[q].key} \subseteq lockMap[repo(p)]

----------------------------------------------------------------------------
(* Duplicate and forced addMessage calls *)

(* an entry of the role and content of call p, stamped less than 5 seconds *)
(* before the call read, is among the last 5 entries the call read         *)
ReadsRecentMatch(p) ==
  \E i \in 1..Len(ReadEntries(p)) :
     /\ i > Len(ReadEntries(p)) - RecentWindow
     /\ SameMessage(p, ReadEntries(p), i)
     /\ obs[p].at - ReadEntries(p)[i].timestamp < DedupMillis

(* C30: the step in which an addMessage call returns null changes no file, *)
(* and the call was not forced; when it has returned null the stored       *)
(* history document is, for every key, the document the call read; and an  *)
(* addMessage call with forceDuplicate set returns its Entry and the       *)
(* stored history of its key ends with that Entry, whether or not a        *)
(* matching recent entry exists.                                           *)
C30_DuplicateNoEffect ==
  /\ [][\A p \in Procs :
          (/\ call[p].op = "addMessage"
           /\ pc[p] = "read"
           /\ pc'[p] = "done"
           /\ obs'[p].ret = "null")
             => /\ ~call[p].a.force
                /\ path' = path
                /\ tmp' = tmp]_vars
  /\ [](\A p \in Procs :
          (call[p].op = "addMessage" /\ pc[p] = "done" /\ obs[p].ret = "null")
             => /\ ~obs[p].renamed
                /\ StoredDoc("db") = obs[p].base)
  /\ [](\A p \in Procs :
          (call[p].op = "addMessage" /\ call[p].a.force /\ pc[p] = "done")
             => /\ obs[p].ret = "value"
                /\ obs[p].renamed
                /\ Len(Stored(call[p].key)) > 0
                /\ Stored(call[p].key)[Len(Stored(call[p].key))]
                     = MessageEntry(obs[p].at, call[p].a.role, call[p].a.content, TRUE))

(* a forced call that read a matching entry stamped less than 5 seconds    *)
(* before has stored its Entry after the entries it read                   *)
C30_Witness ==
  \E p \in Procs :
     /\ call[p].op = "addMessage"
     /\ call[p].a.force
     /\ pc[p] = "done"
     /\ ReadsRecentMatch(p)
     /\ Len(ReadEntries(p)) < maxChatHistory
     /\ Len(Stored(call[p].key)) = Len(ReadEntries(p)) + 1

----------------------------------------------------------------------------
(* Termination of generateContent *)

(* C31: a call never sends more than maxRetries requests, and when every   *)
(* request is answered or fails and every backoff sleep ends, a call under *)
(* way ends: it returns a text or throws (the key selections left in the   *)
(* run covering the attempts the call may still make).                     *)
C31_Termination ==
  /\ [](\A p \in Procs : gen[p].sends <= gen[p].maxRetries)
  /\ \A p \in Procs :
        (/\ gen[p].state \in {"running", "backoff"}
         /\ selects + (gen[p].maxRetries - gen[p].sends) <= MaxGenSelects)
        ~> (gen[p].state \in {"returned", "threw"})

(* a call has returned from its second request, sent when the sleep of 2 s *)
(* after an empty response ended                                           *)
C31_Witness ==
  \E p \in Procs :
     /\ gen[p].state = "returned"
     /\ gen[p].sends = 2
     /\ gen[p].lastError = "empty"
     /\ now = 2000
     /\ selects = 2

----------------------------------------------------------------------------
(* Composite profile updates *)

(* the composite update call p has completed *)
Composed(p) ==
  /\ pc[p] = "done"
  /\ call[p].op = "updateMemory"
  /\ "of" \in DOMAIN call[p].a
  /\ obs[p].outcome = "returned"

(* the stored profile of key k holds the change of the composite update    *)
(* with arguments a: the relationship entry under the lower-cased name, or *)
(* the topic in lastTopics                                                 *)
ChangePresent(k, a) ==
  /\ HasKey(StoredMem, k)
  /\ IF a.then = "storeRelationship"
     THEN LET rel == StoredMem[k].relationships.v
          IN /\ a.type \in DOMAIN rel
             /\ ToLowerCase(a.name) \in DOMAIN rel[a.type].v
     ELSE LET topics == StoredMem[k].conversationContext.v.lastTopics.v
          IN a.context.topic # Undef =>
               \E i \in 1..Len(topics) : topics[i].v.topic = Str(a.context.topic)

(* C32 as claimed: when two storeRelationship calls with different names,  *)
(* or two storeConversationContext calls with different topics, for the    *)
(* same user have both completed, the stored profile holds both changes.   *)
C32_BothPresent ==
  \A p, q \in Procs :
     (/\ p # q
      /\ Composed(p) /\ Composed(q)
      /\ call[p].key = call[q].key
      /\ call[p].a.of.then = call[q].a.of.then
      /\ call[p].a.of # call[q].a.of)
     => /\ ChangePresent(call[p].key, call[p].a.of)
        /\ ChangePresent(call[q].key, call[q].a.of)

----------------------------------------------------------------------------
(* Retention of emotional contexts *)

(* the entries of list that are emotional contexts, and those that are not *)
EmotionalOf(list) ==
  FilterSeq(list, {e \in SeqRange(list) : e.type = "emotional_context"})

OthersOf(list) ==
  FilterSeq(list, {e \in SeqRange(list) : e.type # "emotional_context"})

(* C33 as claimed: when a storeEmotionalContext call completes its write,  *)
(* the stored history of the user holds the new emotional entry after the  *)
(* emotional entries stored before, cut to the last 10 of them, and every  *)
(* entry of another kind that was stored before, in the same order.        *)
C33_Retention ==
  [][\A p \in Procs :
       (/\ call[p].op = "storeEmotionalContext"
        /\ pc[p] = "rename"
        /\ pc'[p] = "done"
        /\ obs'[p].renamed)
       => LET k == call[p].key
              stored == EmotionalOf(Stored(k))
              entry == EmotionalEntry(obs[p].at, call[p].a.context)
          IN /\ Len(EmotionalOf(Stored(k)')) <= MaxEmotional
             /\ EmotionalOf(Stored(k)') = LastN(Append(stored, entry), MaxEmotional)
             /\ OthersOf(Stored(k)') = OthersOf(Stored(k))]_vars

----------------------------------------------------------------------------
(* Contacts of one user *)

(* the positions of list that hold a contact whose name is `name` up to case *)
ContactsNamed(list, name) ==
  {i \in 1..Len(list) : /\ list[i].type = "contact"
                        /\ ToLowerCase(list[i].contactName) = ToLowerCase(name)}

(* C34: under every interleaving of storeContact calls of one user, the    *)
(* stored history of the user never holds two contacts whose names are     *)
(* equal up to case; and the write of a storeContact call puts its contact *)
(* at the position of the stored contact of that name when there is one,   *)
(* leaving the length of the history as it was, and at the end otherwise.  *)
C34_ContactUnique ==
  /\ [](\A k \in Keys : \A i, j \in 1..Len(Stored(k)) :
          (i \in ContactsNamed(Stored(k), Stored(k)[j].contactName)
           /\ Stored(k)[j].type = "contact") => i = j)
  /\ [][\A p \in Procs :
          (/\ call[p].op = "storeContact"
           /\ pc[p] = "rename"
           /\ pc'[p] = "done"
           /\ obs'[p].renamed)
          => LET k == call[p].key
                 before == Stored(k)
                 after == Stored(k)'
                 contactInfo == ContactEntry(obs[p].at, call[p].a.name, call[p].a.number)
                 same == ContactsNamed(before, call[p].a.name)
             IN IF same # {}
                THEN \E i \in same : after = [before EXCEPT ![i] = contactInfo]
                ELSE after = Append(before, contactInfo)]_vars

(* a storeContact("ann") call has completed that read the contacts Ann and *)
(* Bob: the stored history holds ann at position 1 and Bob at position 2   *)
C34_Witness ==
  \E p \in Procs :
     /\ pc[p] = "done"
     /\ call[p].op = "storeContact"
     /\ call[p].a.name = "ann"
     /\ Len(EntriesOf(obs[p].base, "k1")) = 2
     /\ EntriesOf(obs[p].base, "k1")[1].contactName = "Ann"
     /\ Len(Stored("k1")) = 2
     /\ Stored("k1")[1].contactName = "ann"
     /\ Stored("k1")[2].contactName = "Bob"

----------------------------------------------------------------------------
(* Balanced load *)

(* no markKeyAsFailed has run so far *)
NeverQuarantined == \A i \in clients : markedAt[i] = NeverMarked

(* C35: while no credential has been quarantined, the usage counters of    *)
(* any two credentials differ by at most 1, whatever attempts concurrent   *)
(* calls have made; and every attempt adds exactly 1 to exactly one usage  *)
(* counter and leaves the others as they were.                             *)
C35_BalancedLoad ==
  /\ [](NeverQuarantined =>
          \A i, j \in clients : keyUsageCount[i] - keyUsageCount[j] <= 1)
  /\ [][selects' # selects =>
          \E i \in clients :
             keyUsageCount' = [keyUsageCount EXCEPT ![i] = keyUsageCount[i] + 1]]_vars

(* no credential was quarantined, two attempts are under way at once and   *)
(* the pool has served three: two on the first credential, one on the next *)
C35_Witness ==
  /\ NeverQuarantined
  /\ \A p \in Procs : gpc[p] = "sending"
  /\ selects >= 3
  /\ keyUsageCount[0] = 2
  /\ keyUsageCount[1] = 1

----------------------------------------------------------------------------
(* The request of every attempt *)

(* C36 as claimed: every request of a generateContent call carries the     *)
(* message text of its first request, and when the call has ended the      *)
(* turns of the caller are as they were passed in.                         *)
C36_SameRequest ==
  \A p \in Procs :
     /\ \A i \in 1..Len(gen[p].sent) : gen[p].sent[i] = gen[p].sent[1]
     /\ gen[p].state \in {"returned", "threw"} => gen[p].history = gen[p].turns

----------------------------------------------------------------------------
(* ChatPresenceManager: the leave timers *)

(* a leave timer of user u: setTimeout has returned id, the timer has not  *)
(* fired, and no cancelLeaveTimer(u) has run since that left it pending    *)
LeaveTimer(u, id) == [user |-> u, id |-> id, state |-> "pending", outlived |-> FALSE]

(* cancelLeaveTimer(userId): clearTimeout of the recorded timer, which     *)
(* stops it when it is pending and does nothing when it has fired, and     *)
(* leaveTimers.delete(userId)                                              *)
cancelLeaveTimer(u) ==
  LET cleared == {t \in service.leaves : /\ t.user = u
                                         /\ t.id = service.leaveTimers[u]
                                         /\ t.state = "pending"}
  IN [leaveTimers |-> [service.leaveTimers EXCEPT ![u] = 0],
      leaves |-> {IF t.user = u /\ t.state = "pending"
                  THEN [t EXCEPT !.outlived = TRUE] ELSE t :
                  t \in service.leaves \ cleared}]

(* handleMessagePresence(messageInfo) up to its await of the decisions:    *)
(* cancelLeaveTimer(sender), activeChats.set(sender, { isActive: true })   *)
handleMessagePresence(u) ==
  /\ service.timerSeq + service.handling["k1"] + service.handling["k2"] < MaxLeaveTimers
  /\ service' = [service EXCEPT !.leaveTimers = cancelLeaveTimer(u).leaveTimers,
                                !.leaves = cancelLeaveTimer(u).leaves,
                                !.activeChats[u] = "active",
                                !.handling[u] = @ + 1]
  /\ UNCHANGED <<storeVars, now>>
  /\ UNCHANGED poolVars
  /\ UNCHANGED ioVars

(* The decisions of a handleMessagePresence call arrive and it calls       *)
(* scheduleLeaveChat(sender, delay): cancelLeaveTimer, setTimeout,         *)
(* leaveTimers.set(userId, timer)                                          *)
scheduleLeaveChat(u) ==
  /\ service.handling[u] > 0
  /\ service' = [service EXCEPT
                   !.handling[u] = @ - 1,
                   !.timerSeq = @ + 1,
                   !.leaveTimers[u] = service.timerSeq + 1,
                   !.leaves = cancelLeaveTimer(u).leaves
                                \cup {LeaveTimer(u, service.timerSeq + 1)}]
  /\ UNCHANGED <<storeVars, now>>
  /\ UNCHANGED poolVars
  /\ UNCHANGED ioVars

(* The leave timer t is due: its callback starts and awaits leaveChat,     *)
(* which awaits whatsappClient.sendTyping(userId, false)                   *)
LeaveDue(t) ==
  /\ t \in service.leaves
  /\ t.state = "pending"
  /\ service' = [service EXCEPT !.leaves = (@ \ {t}) \cup {[t EXCEPT !.state = "fired"]}]
  /\ UNCHANGED <<storeVars, now>>
  /\ UNCHANGED poolVars
  /\ UNCHANGED ioVars

(* sendTyping returns, or throws (sent = FALSE): leaveChat marks the chat  *)
(* inactive when the request went through, and the finally block of the    *)
(* callback runs leaveTimers.delete(userId)                                *)
leaveChat(t, sent) ==
  /\ t \in service.leaves
  /\ t.state = "fired"
  /\ service' = [service EXCEPT
                   !.activeChats[t.user] = IF sent /\ @ # "none" THEN "inactive" ELSE @,
                   !.leaveTimers[t.user] = 0,
                   !.leaves = @ \ {t}]
  /\ UNCHANGED <<storeVars, now>>
  /\ UNCHANGED poolVars
  /\ UNCHANGED ioVars

(* onUserMessage(userId): cancelLeaveTimer, and the chat is active again *)
onUserMessage(u) ==
  /\ service' = [service EXCEPT
                   !.leaveTimers = cancelLeaveTimer(u).leaveTimers,
                   !.leaves = cancelLeaveTimer(u).leaves,
                   !.activeChats[u] = IF @ # "none" THEN "active" ELSE @]
  /\ UNCHANGED <<storeVars, now>>
  /\ UNCHANGED poolVars
  /\ UNCHANGED ioVars

(* messages of two users and the leave timers they set, fired in any order *)
NextPresence ==
  \/ \E u \in Keys : handleMessagePresence(u)
  \/ \E u \in Keys : scheduleLeaveChat(u)
  \/ \E t \in service.leaves : LeaveDue(t)
  \/ \E t \in service.leaves, sent \in BOOLEAN : leaveChat(t, sent)
  \/ \E u \in Keys : onUserMessage(u)

SpecPresence == Init /\ [][NextPresence]_vars

(* C37 as claimed: every leave timer that is pending is the one recorded   *)
(* in leaveTimers for its user, and no leave timer fires that was set      *)
(* before a cancelLeaveTimer or onUserMessage of its user.                 *)
C37_LeaveTimers ==
  \A t \in service.leaves :
     /\ t.state = "pending" => service.leaveTimers[t.user] = t.id
     /\ t.state = "fired" => ~t.outlived

----------------------------------------------------------------------------
(* AIMemoryManager.processAIMemoryDecisions: the per-user batch guard *)

(* a guard that never finds the marker *)
alreadyProcessing_Never(queue, u) == FALSE

(* this.processingQueue.has(userId) *)
alreadyProcessing(queue, u) == u \in queue

(* The operations of a batch are "update" (operation 'update' with a       *)
(* category and data: memoryManager.updateMemory(userId, category, data,   *)
(* true)) or "invalid" (a field is missing: executeMemoryOperation logs    *)
(* and returns).  The operations from the first one that awaits the store: *)
RECURSIVE pendingOperations(_)
pendingOperations(operations) ==
  IF operations = <<>> THEN <<>>
  ELSE IF Head(operations) = "invalid" THEN pendingOperations(Tail(operations))
  ELSE operations

(* the memoryDecisions arguments: null, an object without                  *)
(* memory_operations, one whose memory_operations is a number (for-of      *)
(* throws), and objects with a list of operations: updates, the first of   *)
(* them invalid or not                                                     *)
Decisions ==
  {[kind |-> k, operations |-> <<>>] : k \in {"null", "missing", "number"}}
  \cup UNION {{[kind |-> "list",
                 operations |-> [i \in 1..n |-> IF i = 1 THEN first ELSE "update"]] :
                 first \in {"update", "invalid"}} : n \in 0..MaxOperations}

(* the repository call of an "update" operation for user u *)
UpdateOperation(u) == UpdateMemory(u, "academicInfo", Obj([stream |-> Str("science")]), TRUE)

(* processAIMemoryDecisions(userId, memoryDecisions) up to its first await *)
(* of the store, or to its return when it has none                         *)
processAIMemoryDecisions(p, u, decisions, max) ==
  LET operations == pendingOperations(decisions.operations)
  IN /\ service.batch[p].state \in {"idle", "returned"}
     /\ pc[p] \in {"idle", "done"}
     /\ calls + Len(decisions.operations) <= max
     /\ IF alreadyProcessing(service.processingQueue, u)
        THEN /\ service' = [service EXCEPT
                              !.batch[p] = [NoBatch EXCEPT !.user = u,
                                                           !.state = "returned",
                                                           !.skipped = TRUE]]
             /\ UNCHANGED <<storeVars, now>>
             /\ UNCHANGED poolVars
             /\ UNCHANGED ioVars
        ELSE IF decisions.kind # "list" \/ operations = <<>>
        THEN /\ service' = [service EXCEPT
                              !.batch[p] = [NoBatch EXCEPT !.user = u,
                                                           !.state = "returned"],
                              !.processingQueue = (@ \cup {u}) \ {u}]
             /\ UNCHANGED <<storeVars, now>>
             /\ UNCHANGED poolVars
             /\ UNCHANGED ioVars
        ELSE /\ service' = [service EXCEPT
                              !.batch[p] = [NoBatch EXCEPT !.user = u,
                                                           !.state = "executing",
                                                           !.left = Tail(operations)],
                              !.processingQueue = @ \cup {u}]
             /\ Invoke(p, UpdateOperation(u), max)

(* The repository call of an operation has returned or thrown (the error   *)
(* is caught in executeMemoryOperation): the loop goes on to its next      *)
(* operation that awaits the store, or ends and the finally block runs     *)
(* processingQueue.delete(userId)                                          *)
executeMemoryOperation(p, max) ==
  LET operations == pendingOperations(service.batch[p].left)
  IN /\ service.batch[p].state = "executing"
     /\ pc[p] = "done"
     /\ IF operations = <<>>
        THEN /\ service' = [service EXCEPT
                              !.batch[p].state = "returned",
                              !.batch[p].left = <<>>,
                              !.processingQueue = @ \ {service.batch[p].user}]
             /\ UNCHANGED <<storeVars, now>>
             /\ UNCHANGED poolVars
             /\ UNCHANGED ioVars
        ELSE /\ service' = [service EXCEPT !.batch[p].left = Tail(operations)]
             /\ Invoke(p, UpdateOperation(service.batch[p].user), max)

(* concurrent batches for two users; no call waits for a lock, batches of  *)
(* one user being exclusive                                                *)
NextBatch ==
  \/ \E p \in Procs, u \in Keys, decisions \in Decisions :
        processAIMemoryDecisions(p, u, decisions, MaxBatchCalls)
  \/ \E p \in Procs : executeMemoryOperation(p, MaxBatchCalls)
  \/ \E p \in Procs : Read(p)
  \/ \E p \in Procs : Access(p)
  \/ \E p \in Procs : Mkdir(p)
  \/ \E p \in Procs : Open(p)
  \/ \E p \in Procs : Write(p)
  \/ \E p \in Procs : Rename(p)

SpecBatch == Init /\ [][NextBatch]_vars

(* the batches executing for user u *)
Executing(u) ==
  {p \in Procs : service.batch[p].state = "executing" /\ service.batch[p].user = u}

(* C38: for every user at most one processAIMemoryDecisions batch is       *)
(* executing, and the user is in processingQueue exactly when a batch for  *)
(* the user is executing: the marker is gone once the batch has ended,     *)
(* whether it ran its operations, had none or threw.                       *)
C38_BatchGuard ==
  \A u \in Keys :
     /\ Cardinality(Executing(u)) <= 1
     /\ u \in service.processingQueue <=> Executing(u) # {}

(* a batch for k1 is executing its second operation, the last one, and a   *)
(* second call for k1 has returned at once on the marker                   *)
C38_Witness ==
  \E p, q \in Procs :
     /\ p # q
     /\ service.batch[p].state = "executing"
     /\ service.batch[p].user = "k1"
     /\ service.batch[p].left = <<>>
     /\ calls = 2
     /\ pc[p] = "rename"
     /\ service.batch[q].skipped
     /\ service.batch[q].user = "k1"
     /\ "k1" \in service.processingQueue

====
